---- MODULE Spec2Model ----
(***************************************************************************)
(* Fingerprint authentication by transciphering: the plaintext Trivium     *)
(* stream cipher of the client, the Trivium state machine lifted to        *)
(* homomorphic booleans on the server, the transcipher that combines a     *)
(* public ciphertext with the homomorphic keystream, and the homomorphic   *)
(* matcher (diff_bits, popcount, leq_constant).                            *)
(*                                                                         *)
(* Four pipelines are explored, each with its own specification, and the   *)
(* first two once more side by side:                                       *)
(*   SpecCipher  encrypt, self-decrypt and transcipher one bit sequence    *)
(*   SpecMatch   diff_bits, the four popcount routines and leq_constant    *)
(*   SpecVerify  the client's register and verify, the request files, and  *)
(*               the server's handle_register and handle_verify            *)
(*   SpecSessions  calls of the client's CLI that follow one another       *)
(*   SpecRoutines  SpecCipher and SpecMatch together                       *)
(*                                                                         *)
(* Indices of the source are 0-based; sequences here are 1-based, and the  *)
(* accessors At and Set take the 0-based index of the source.              *)
(***************************************************************************)
EXTENDS Integers, Sequences, FiniteSets, TLC

VARIABLES
    mode,        \* which pipeline this behaviour runs: "cipher", "match",
                 \* "verify" or "sessions"
    pc,          \* position of the running pipeline
    \* the plaintext Trivium of the client
    key,         \* Trivium key of the session, 80 booleans
    iv,          \* Trivium IV of the session, 80 booleans
    data,        \* the plaintext bits handed to the first Trivium::process
    run,         \* 1: trivium (encrypt), 2: trivium2 (self-decrypt)
    state,       \* Trivium.state of the live plaintext instance
    clocks,      \* calls of Trivium::clock on the live instance since its load
    ks,          \* outputs of Trivium::clock that process consumed, run 1
    ksAt,        \* for each element of ks, the number of the clock that made it
    ciphertext,  \* result of trivium.process(data)
    decrypted,   \* result of trivium2.process(ciphertext)
    \* one call of decrypt_homomorphic
    call,        \* its arguments: ciphertext, encrypted_key, encrypted_iv, encrypted_true
    fstate,      \* TriviumFhe.state
    fclocks,     \* calls of TriviumFhe::clock since the load
    fks,         \* the vector keystream(n) is collecting
    fksAt,       \* for each element of fks, the number of the clock that made it
    fplain,      \* result of decrypt_homomorphic
    \* the matcher
    bits_a,      \* plaintext of the first fingerprint (the enrolled one)
    bits_b,      \* plaintext of the second fingerprint (the probe)
    routine,     \* the popcount routine called: 128, 256, 512 or 1024
    diff,        \* result of diff_bits
    acc,         \* the accumulator of the popcount routine
    carry,       \* the carry left by the last inner loop of the popcount routine
    idx,         \* number of diff bits the popcount routine has consumed
    dist,        \* distance_bits_lsb, the argument of leq_constant
    thr,         \* threshold, the argument of leq_constant
    thr_bits,    \* leq_constant's thr_bits
    gt,          \* leq_constant's gt
    eq,          \* leq_constant's eq
    li,          \* number of bit positions leq_constant still has to sweep
    result,      \* result of leq_constant
    \* the verify session
    reg_request, \* the RegisterRequest
    record,      \* the TemplateEntry of the enrolled user
    request,     \* the VerifyRequest
    penrolled,   \* handle_verify's plaintext_enrolled_fhe
    pprobe,      \* handle_verify's plaintext_probe_fhe
    response,    \* the VerifyResponse in verify_response.json
    \* the combining stage of decrypt_homomorphic
    combine_gates,   \* for each output bit, the gates the map closure executed
    xor_count,       \* XOR gates of the decrypt_homomorphic call stepped so far
    and_count,       \* AND gates of the decrypt_homomorphic call stepped so far
    \* the server: its files, its evaluation-key slot, its handlers
    register_file,   \* register_request.json
    verify_file,     \* verify_request.json
    reg_response,    \* register_response.json
    server_key_file, \* database/server_key.bin
    store,           \* database/templates.json
    backups,         \* number of templates.json.backup.<timestamp> files
    slot,            \* the process-wide evaluation key set_server_key writes
    trace,           \* what the handler of the pending request did, in order
    outcome,         \* how its last call ended: Ok, an Err, or a panic
    polls,           \* number of times the main loop called handle_verify
    origin,          \* who wrote the register and the verify request
    \* the client: its key file and the call of the CLI in progress
    client,          \* key_file: client_key.bin; keygens: calls of generate_keys;
                     \* calls: calls of the CLI so far; waiting: the call that
                     \* is in wait_for_response; accepted: what the last
                     \* wait_for_response returned
    history          \* pending: the call that wrote each request file;
                     \* answers: the call whose request each response file
                     \* answers; registered: for each user the last register
                     \* request handle_register ended with Ok

trivVars == <<key, iv, data, run, state, clocks, ks, ksAt, ciphertext, decrypted>>

fheVars == <<call, fstate, fclocks, fks, fksAt, fplain>>

matchVars == <<bits_a, bits_b, routine, diff, acc, carry, idx, dist, thr, thr_bits, gt, eq,
               li, result>>

sessVars == <<reg_request, record, request, penrolled, pprobe, response>>

gateVars == <<combine_gates, xor_count, and_count>>

srvVars == <<register_file, verify_file, reg_response, server_key_file, store, backups,
             slot, trace, outcome, polls, origin>>

cliVars == <<client, history>>

vars == <<mode, pc, trivVars, fheVars, matchVars, sessVars, gateVars, srvVars, cliVars>>

----------------------------------------------------------------------------
(* Bounds of the explored inputs.                                          *)

MaxKeyWord == 2      \* Trivium keys are the patterns of the words 0..MaxKeyWord
MaxIvWord == 1       \* Trivium IVs are the patterns of the words 0..MaxIvWord
MaxDataWord == 1     \* plaintexts are the patterns of the words 0..MaxDataWord
MaxLen == 64         \* longest plaintext handed to process
MaxFlip == 2         \* distances 0..MaxFlip and N-MaxFlip..N reach the matcher
MaxSeed == 1         \* a client session draws its key and IV from a seed 0..MaxSeed
MaxShort == 8        \* length of the bit sequences no routine serves
MaxPolls == 2        \* turns of the main loop explored for one verify request
MaxCalls == 3        \* calls of the client's CLI that follow one another

----------------------------------------------------------------------------
(* Plain helpers.                                                          *)

At(s, i) == s[i + 1]

Set(s, i, v) == [s EXCEPT ![i + 1] = v]

Xor(x, y) == x # y

\* the number of elements of seq that are x
Count(seq, x) == Cardinality({i \in 1..Len(seq) : seq[i] = x})

\* the len-bit sequence whose bit i is bit (i mod 8) of the word w
PatternBits(len, w) == [i \in 1..len |-> ((w \div (2 ^ ((i - 1) % 8))) % 2) = 1]

KeySet == { PatternBits(80, w) : w \in 0..MaxKeyWord }

IvSet == { PatternBits(80, w) : w \in 0..MaxIvWord }

DataSet == { PatternBits(len, w) : len \in {0, 1, MaxLen}, w \in 0..MaxDataWord }

\* keys and IVs of a length other than 80
OffLengthSet == { PatternBits(len, 1) : len \in {MaxShort, 79, 81} }

\* bits with the first m bits inverted
FlipFirst(bits, m) == [i \in 1..Len(bits) |-> IF i <= m THEN ~bits[i] ELSE bits[i]]

\* bits with the last m bits inverted
FlipLast(bits, m) ==
    [i \in 1..Len(bits) |-> IF i > Len(bits) - m THEN ~bits[i] ELSE bits[i]]

\* the number of positions in which two sequences of one length differ
Hamming(x, y) == Cardinality({i \in 1..Len(x) : x[i] # y[i]})

RECURSIVE BitsValue(_)
\* the integer a bit sequence encodes, least significant bit first
BitsValue(bits) ==
    IF Len(bits) = 0 THEN 0
    ELSE (IF bits[1] THEN 1 ELSE 0) + 2 * BitsValue(Tail(bits))

\* the w-bit sequence that encodes d, least significant bit first
ValueBits(d, w) == [i \in 1..w |-> ((d \div (2 ^ (i - 1))) % 2) = 1]

----------------------------------------------------------------------------
(* The FHE gate layer: an FheBool is a ciphertext of one boolean under a   *)
(* client key; the gates act on the encrypted booleans.                    *)

ClientKey == 1

Encrypt(b, ck) == [bit |-> b, ck |-> ck]

Decrypt(c, ck) == c.bit

EncryptAll(bits, ck) == [i \in 1..Len(bits) |-> Encrypt(bits[i], ck)]

DecryptAll(cs, ck) == [i \in 1..Len(cs) |-> Decrypt(cs[i], ck)]

FheXor(x, y) == [bit |-> x.bit # y.bit, ck |-> x.ck]

FheAnd(x, y) == [bit |-> x.bit /\ y.bit, ck |-> x.ck]

\* a false the server encrypts by itself, under no client key
FheFalseTrivial(encrypted_true) == [bit |-> FALSE, ck |-> 0]

\* let fhe_false = encrypted_true ^ encrypted_true, in TriviumFhe::new, the
\* popcount routines and leq_constant
FheFalse(encrypted_true) == FheXor(encrypted_true, encrypted_true)

\* bincode::serialize and bincode::deserialize of ciphertexts
Serialize(x) == [bincode |-> x]

Deserialize(bytes) == bytes.bincode

----------------------------------------------------------------------------
(* trivium.rs: the plaintext cipher.                                       *)

\* a warmup loop that is one iteration short
WarmupCyclesShort == 1152 - 1

WarmupCycles == 1152

\* an OR where process has its XOR
ProcessOr(bit, z) == bit \/ z

\* the closure of Trivium::process: bit ^ self.clock()
ProcessXor(bit, z) == Xor(bit, z)

\* vec![value; n]
Repeat(value, n) == [i \in 1..n |-> value]

\* s[start..start+len(src)].copy_from_slice(src)
CopyFromSlice(s, start, src) ==
    SubSeq(s, 1, start) \o src \o SubSeq(s, start + Len(src) + 1, Len(s))

\* Trivium::new with the three trailing ones forgotten
TriviumLoadNoOnes(k, v) ==
    CopyFromSlice(CopyFromSlice(Repeat(FALSE, 288), 0, k), 93, v)

\* Trivium::new up to the warmup loop
TriviumLoad(k, v) ==
    LET s0 == Repeat(FALSE, 288)
        s1 == CopyFromSlice(s0, 0, k)
        s2 == CopyFromSlice(s1, 93, v)
    IN  Set(Set(Set(s2, 285, TRUE), 286, TRUE), 287, TRUE)

\* a rotation in the wrong direction
RotateLeft(s) == SubSeq(s, 2, Len(s)) \o <<s[1]>>

\* Vec::rotate_right(1)
RotateRight(s) == <<s[Len(s)]>> \o SubSeq(s, 1, Len(s) - 1)

\* Trivium::clock: the output bit and the next state
TriviumClock(s) ==
    LET t1 == Xor(At(s, 65), At(s, 92))
        t2 == Xor(At(s, 161), At(s, 176))
        t3 == Xor(At(s, 242), At(s, 287))
        output == Xor(Xor(t1, t2), t3)
        s1 == Xor(Xor(t1, At(s, 90) /\ At(s, 91)), At(s, 170))
        s2 == Xor(Xor(t2, At(s, 174) /\ At(s, 175)), At(s, 263))
        s3 == Xor(Xor(t3, At(s, 285) /\ At(s, 286)), At(s, 68))
    IN  [output |-> output,
         state |-> Set(Set(Set(RotateRight(s), 0, s3), 93, s1), 177, s2)]

RECURSIVE TriviumClockN(_, _)
\* the state after n calls of Trivium::clock (the first half of the calls
\* is evaluated before the second half starts)
TriviumClockN(s, n) ==
    IF n = 0 THEN s
    ELSE IF n = 1 THEN TriviumClock(s).state
    ELSE LET half == TriviumClockN(s, n \div 2)
         IN  IF Len(half) = Len(s) THEN TriviumClockN(half, n - (n \div 2))
             ELSE half

\* the state of the instance Trivium::new returns
TriviumNewState(k, v) == TriviumClockN(TriviumLoad(k, v), WarmupCycles)

RECURSIVE TriviumProcessRange(_, _, _, _)
\* Trivium::process over the elements lo..hi of d: the bits mapped and the
\* state left
TriviumProcessRange(s, d, lo, hi) ==
    IF lo > hi THEN [state |-> s, out |-> <<>>]
    ELSE IF lo = hi
    THEN LET c == TriviumClock(s)
         IN  [state |-> c.state, out |-> <<ProcessXor(d[lo], c.output)>>]
    ELSE LET mid == (lo + hi) \div 2
             l == TriviumProcessRange(s, d, lo, mid)
             r == TriviumProcessRange(l.state, d, mid + 1, hi)
         IN  IF Len(l.state) = Len(s)
             THEN [state |-> r.state, out |-> l.out \o r.out]
             ELSE l

\* Trivium::new(k, v).process(d)
TriviumEncrypt(k, v, d) ==
    TriviumProcessRange(TriviumNewState(k, v), d, 1, Len(d)).out

----------------------------------------------------------------------------
(* trivium_fhe.rs: the cipher over FheBool.                                *)

\* a u64 is held as four limbs of 16 bits, the least significant one first;
\* (value >> i) & 1 == 1 for a shift i below 64
U64Bit(value, i) == ((value[(i \div 16) + 1] \div (2 ^ (i % 16))) % 2) = 1

\* a loop over all the 80 positions with the shift taken modulo 64
U64ToBits80Wrapping(value) == [i \in 1..80 |-> U64Bit(value, (i - 1) % 64)]

\* u64_to_bits_80
u64_to_bits_80(value) == [i \in 1..80 |-> IF i - 1 < 64 THEN U64Bit(value, i - 1) ELSE FALSE]

FheWarmupCycles == 1152

\* 12 where the source pushes 13 zeros after the key
TriviumFheLoadShort(encrypted_key, encrypted_iv, encrypted_true) ==
    LET fhe_false == FheXor(encrypted_true, encrypted_true)
    IN  [i \in 1..288 |->
            IF i <= 80 THEN encrypted_key[i]
            ELSE IF i <= 92 THEN fhe_false
            ELSE IF i <= 172 THEN encrypted_iv[i - 92]
            ELSE IF i <= 285 THEN fhe_false
            ELSE encrypted_true]

\* n times state.push(c.clone())
PushClones(s, c, n) == s \o [i \in 1..n |-> c]

\* TriviumFhe::new up to the warmup loop
TriviumFheLoad(encrypted_key, encrypted_iv, encrypted_true) ==
    LET fhe_true == encrypted_true
        fhe_false == FheFalse(encrypted_true)
        p1 == [i \in 1..80 |-> encrypted_key[i]]
        p2 == PushClones(p1, fhe_false, 13)
        p3 == p2 \o [i \in 1..80 |-> encrypted_iv[i]]
        p4 == PushClones(p3, fhe_false, 4)
        p5 == PushClones(p4, fhe_false, 108)
    IN  PushClones(p5, fhe_true, 3)

\* a shift that inserts the new bit and keeps the last bit of the register
ShiftRegisterInsert(s, start, end, new_bit) ==
    SubSeq(s, 1, start) \o <<new_bit>> \o SubSeq(s, start + 1, Len(s))

\* TriviumFhe::shift_register(start, end, new_bit)
ShiftRegister(s, start, end, new_bit) ==
    SubSeq(s, 1, start) \o <<new_bit>> \o SubSeq(s, start + 1, end)
        \o SubSeq(s, end + 2, Len(s))

\* the AND of the first feedback taken one tap too far
TriviumFheClockBadTap(s) ==
    LET t1 == FheXor(At(s, 65), At(s, 92))
        t2 == FheXor(At(s, 161), At(s, 176))
        t3 == FheXor(At(s, 242), At(s, 287))
        output == FheXor(FheXor(t1, t2), t3)
        s1 == FheXor(FheXor(t1, FheAnd(At(s, 91), At(s, 92))), At(s, 170))
        s2 == FheXor(FheXor(t2, FheAnd(At(s, 174), At(s, 175))), At(s, 263))
        s3 == FheXor(FheXor(t3, FheAnd(At(s, 285), At(s, 286))), At(s, 68))
    IN  [output |-> output,
         state |-> SubSeq(<<s3>> \o SubSeq(s, 1, 92) \o <<s1>>
                          \o SubSeq(s, 94, 176) \o <<s2>>
                          \o SubSeq(s, 178, 287), 1, 288)]

\* the gate TriviumFhe::new executes before its warmup loop: fhe_false
TriviumFheNewGates == <<"xor">>

\* a clock that synthesizes its own fhe_false
TriviumFheClockGatesOwnFalse ==
    <<"xor", "xor", "xor", "xor", "xor", "xor", "and", "xor", "xor", "and", "xor",
      "xor", "and", "xor", "xor">>

\* the gates one call of TriviumFhe::clock executes, in the order of its
\* lines: t1, t2, t3, the two of output, and for each of s1, s2, s3 the AND
\* and the two XORs around it; shift_register clones and executes none
TriviumFheClockGates ==
    <<"xor", "xor", "xor", "xor", "xor", "and", "xor", "xor", "and", "xor", "xor",
      "and", "xor", "xor">>

\* TriviumFhe::clock: the output ciphertext and the next state
TriviumFheClock(s) ==
    LET t1 == FheXor(At(s, 65), At(s, 92))
        t2 == FheXor(At(s, 161), At(s, 176))
        t3 == FheXor(At(s, 242), At(s, 287))
        output == FheXor(FheXor(t1, t2), t3)
        s1 == FheXor(FheXor(t1, FheAnd(At(s, 90), At(s, 91))), At(s, 170))
        s2 == FheXor(FheXor(t2, FheAnd(At(s, 174), At(s, 175))), At(s, 263))
        s3 == FheXor(FheXor(t3, FheAnd(At(s, 285), At(s, 286))), At(s, 68))
    IN  [output |-> output,
         state |-> ShiftRegister(ShiftRegister(ShiftRegister(s, 0, 92, s3),
                                               93, 176, s1), 177, 287, s2)]

\* the combining stage without the negation of the selected bits
CombineNoNegate(ct, keystream, encrypted_true) ==
    [i \in 1..Len(ct) |-> keystream[i]]

\* the map of decrypt_homomorphic over (ciphertext bit, keystream bit)
Combine(ct, keystream, encrypted_true) ==
    [i \in 1..Len(ct) |->
        IF ct[i] THEN FheXor(keystream[i], encrypted_true) ELSE keystream[i]]

\* a selector built from gates: c AND (k XOR true) for every bit
CombineGatesMux(ct) == [i \in 1..Len(ct) |-> <<"xor", "and">>]

\* the gates the closure of decrypt_homomorphic's map executes for each
\* ciphertext bit: k_bit ^ encrypted_true for a 1, a clone for a 0
CombineGates(ct) == [i \in 1..Len(ct) |-> IF ct[i] THEN <<"xor">> ELSE <<>>]

RECURSIVE TriviumFheClockN(_, _)
\* the state after n calls of TriviumFhe::clock (the first half of the
\* calls is evaluated before the second half starts)
TriviumFheClockN(s, n) ==
    IF n = 0 THEN s
    ELSE IF n = 1 THEN TriviumFheClock(s).state
    ELSE LET half == TriviumFheClockN(s, n \div 2)
         IN  IF Len(half) = Len(s) THEN TriviumFheClockN(half, n - (n \div 2))
             ELSE half

RECURSIVE TriviumFheKeystream(_, _)
\* TriviumFhe::keystream(n): the ciphertexts collected and the state left
TriviumFheKeystream(s, n) ==
    IF n = 0 THEN [state |-> s, out |-> <<>>]
    ELSE IF n = 1
    THEN LET c == TriviumFheClock(s) IN [state |-> c.state, out |-> <<c.output>>]
    ELSE LET l == TriviumFheKeystream(s, n \div 2)
             r == TriviumFheKeystream(l.state, n - (n \div 2))
         IN  IF Len(l.state) = Len(s)
             THEN [state |-> r.state, out |-> l.out \o r.out]
             ELSE l

\* decrypt_homomorphic, for a key and an IV of 80 ciphertexts
DecryptHomomorphic(ct, encrypted_key, encrypted_iv, encrypted_true) ==
    LET trivium == TriviumFheClockN(
                       TriviumFheLoad(encrypted_key, encrypted_iv, encrypted_true),
                       FheWarmupCycles)
        keystream == TriviumFheKeystream(trivium, Len(ct)).out
    IN  Combine(ct, keystream, encrypted_true)

----------------------------------------------------------------------------
(* matching_fhe.rs: the matcher over FheBool.                              *)

\* a negation that hands its argument back
FheNotClone(x, fhe_true) == x

fhe_not(x, fhe_true) == FheXor(x, fhe_true)

fhe_or(x, y) == FheXor(FheXor(x, y), FheAnd(x, y))

\* an AND where diff_bits has its XOR
DiffBitsAnd(x, y) == [i \in 1..Len(x) |-> FheAnd(x[i], y[i])]

\* diff_bits, for arguments of one length
DiffBits(x, y) == [i \in 1..Len(x) |-> FheXor(x[i], y[i])]

\* the length the popcount routine r asserts: popcount_1024 asserts 1024,
\* popcount_512 asserts 512, and popcount_256 and popcount_128 end in
\* popcount_512
PopcountLen(r) == IF r = 1024 THEN 1024 ELSE 512

\* an accumulator one bit short
CounterWidthNarrow(r) == IF r = 1024 THEN 10 ELSE 9

\* the length of the accumulator of the popcount routine r
CounterWidth(r) == IF r = 1024 THEN 11 ELSE 10

\* a padding with clones of the encrypted true
PopcountPadTrue(d, fhe_true, r) ==
    IF r = 256 /\ Len(d) = 256
    THEN d \o Repeat(fhe_true, 256)
    ELSE IF r = 128 /\ Len(d) = 128
    THEN d \o Repeat(fhe_true, 384)
    ELSE d

\* popcount_256 and popcount_128 up to their call of popcount_512: a diff of
\* the legacy width is padded with encrypted false, any other is passed on
PopcountPad(d, fhe_true, r) ==
    IF r = 256 /\ Len(d) = 256
    THEN d \o Repeat(FheFalse(fhe_true), 256)
    ELSE IF r = 128 /\ Len(d) = 128
    THEN d \o Repeat(FheFalse(fhe_true), 384)
    ELSE d

RECURSIVE RippleStale(_, _, _)
\* the inner loop with the carry taken from the updated accumulator bit
RippleStale(accu, c, i) ==
    IF i > Len(accu) THEN [acc |-> accu, carry |-> c]
    ELSE LET sum == FheXor(accu[i], c)
         IN  RippleStale([accu EXCEPT ![i] = sum], FheAnd(sum, c), i + 1)

RECURSIVE Ripple(_, _, _)
\* the inner loop of the popcount routines from accumulator index i - 1 on:
\* the accumulator and the carry it leaves
Ripple(accu, c, i) ==
    IF i > Len(accu) THEN [acc |-> accu, carry |-> c]
    ELSE LET sum == FheXor(accu[i], c)
             new_carry == FheAnd(accu[i], c)
         IN  Ripple([accu EXCEPT ![i] = sum], new_carry, i + 1)

RECURSIVE PopcountRange(_, _, _, _)
\* the outer loop of the popcount routines over the elements lo..hi of d
PopcountRange(accu, d, lo, hi) ==
    IF lo > hi THEN accu
    ELSE IF lo = hi THEN Ripple(accu, d[lo], 1).acc
    ELSE LET mid == (lo + hi) \div 2
             half == PopcountRange(accu, d, lo, mid)
         IN  IF Len(half) = Len(accu) THEN PopcountRange(half, d, mid + 1, hi)
             ELSE half

\* the popcount routine r, for a diff of the length it serves
Popcount(d, fhe_true, r) ==
    LET padded == PopcountPad(d, fhe_true, r)
    IN  PopcountRange(Repeat(FheFalse(fhe_true), CounterWidth(r)), padded, 1,
                      Len(padded))

\* thr_bits all true for a threshold no counter of k bits reaches
ThrBitsSaturated(threshold, k) ==
    [i \in 1..k |-> threshold >= 2 ^ k \/ ((threshold \div (2 ^ (i - 1))) % 2) = 1]

\* leq_constant's thr_bits for a counter of k bits
ThrBits(threshold, k) == [i \in 1..k |-> ((threshold \div (2 ^ (i - 1))) % 2) = 1]

\* the body of the sweep with eq updated before gt reads it
LeqSweepStepEqFirst(g, e, di, tbit, fhe_true) ==
    IF tbit = FALSE
    THEN LET e2 == FheAnd(e, fhe_not(di, fhe_true))
         IN  [gt |-> fhe_or(g, FheAnd(e2, di)), eq |-> e2]
    ELSE [gt |-> g, eq |-> FheAnd(e, di)]

\* the body of leq_constant's sweep for one bit position
LeqSweepStep(g, e, di, tbit, fhe_true) ==
    IF tbit = FALSE
    THEN [gt |-> fhe_or(g, FheAnd(e, di)),
          eq |-> FheAnd(e, fhe_not(di, fhe_true))]
    ELSE [gt |-> g, eq |-> FheAnd(e, di)]

RECURSIVE LeqSweep(_, _, _, _, _, _)
\* leq_constant's sweep over the bit positions i - 1 down to 0
LeqSweep(g, e, d, tbits, i, fhe_true) ==
    IF i = 0 THEN [gt |-> g, eq |-> e]
    ELSE LET r == LeqSweepStep(g, e, d[i], tbits[i], fhe_true)
         IN  LeqSweep(r.gt, r.eq, d, tbits, i - 1, fhe_true)

\* leq_constant
LeqConstant(distance_bits_lsb, threshold, fhe_true) ==
    LET k == Len(distance_bits_lsb)
        sweep == LeqSweep(FheFalse(fhe_true), fhe_true, distance_bits_lsb,
                          ThrBits(threshold, k), k, fhe_true)
    IN  fhe_not(sweep.gt, fhe_true)

----------------------------------------------------------------------------
(* server/src/main.rs: helpers of the handlers.                            *)

\* one byte packed with the first bit of the chunk in its top bit
PackByteMsbFirst(bools, j) ==
    LET n == IF Len(bools) - 8 * j < 8 THEN Len(bools) - 8 * j ELSE 8
        bitval(i) == IF bools[8 * j + i + 1] THEN 2 ^ (7 - i) ELSE 0
        F[i \in 0..n] == IF i = 0 THEN 0 ELSE F[i - 1] + bitval(i - 1)
    IN  F[n]

\* one byte of bools_to_bytes: the chunk that starts at bit 8 * j
PackByte(bools, j) ==
    LET n == IF Len(bools) - 8 * j < 8 THEN Len(bools) - 8 * j ELSE 8
        bitval(i) == IF bools[8 * j + i + 1] THEN 2 ^ i ELSE 0
        F[i \in 0..n] == IF i = 0 THEN 0 ELSE F[i - 1] + bitval(i - 1)
    IN  F[n]

bools_to_bytes(bools) == [j \in 1..((Len(bools) + 7) \div 8) |-> PackByte(bools, j - 1)]

bytes_to_bools(bytes) ==
    [i \in 1..(8 * Len(bytes)) |->
        ((bytes[((i - 1) \div 8) + 1] \div (2 ^ ((i - 1) % 8))) % 2) = 1]

\* a threshold rounded to the nearest integer
VerifyThresholdRounded == (1024 * 2 + 5) \div 10

\* handle_verify: (1024.0 * 0.2) as usize
VerifyThreshold == (1024 * 2) \div 10

----------------------------------------------------------------------------
(* protocol.rs, database.rs and the files of the server.                   *)

\* the user id of the register requests, and one no request registers
EnrolledUser == "alice"

OtherUser == "bob"

\* bytes that bincode::deserialize rejects
CorruptBytes == [corrupt |-> TRUE]

\* whether bincode::deserialize accepts the bytes
Deserializable(bytes) == "bincode" \in DOMAIN bytes

\* the evaluation key generate_keys returns along with the client key ck
ServerKeyOf(ck) == [evaluates_for |-> ck]

\* RegisterRequest::new; server_key_bytes is <<>> for None and <<bytes>> for
\* Some(bytes)
RegisterRequestNew(user_id, ct, key_bytes, iv_bytes, server_key_bytes) ==
    [user_id |-> user_id,
     ciphertext |-> ct,
     encrypted_key_bytes |-> key_bytes,
     encrypted_iv_bytes |-> iv_bytes,
     server_key_bytes |-> server_key_bytes]

\* VerifyRequest::new
VerifyRequestNew(user_id, ct, key_bytes, iv_bytes, true_bytes) ==
    [user_id |-> user_id,
     ciphertext |-> ct,
     encrypted_key_bytes |-> key_bytes,
     encrypted_iv_bytes |-> iv_bytes,
     encrypted_true_bytes |-> true_bytes]

\* RegisterResponse::success, as the file the server writes
RegisterResponseSuccess(user_id) ==
    [state |-> "written",
     success |-> TRUE,
     message |-> "Fingerprint registered successfully",
     user_id |-> user_id]

\* VerifyResponse::success, as the file the server writes
VerifyResponseSuccess(encrypted_match_bytes, encrypted_distance_bytes) ==
    [state |-> "written",
     success |-> TRUE,
     encrypted_match_bytes |-> encrypted_match_bytes,
     encrypted_distance_bytes |-> encrypted_distance_bytes]

\* VerifyResponse::error: the message is dropped, the struct has no field
\* for it
VerifyResponseError(message) ==
    [state |-> "written",
     success |-> FALSE,
     encrypted_match_bytes |-> <<>>,
     encrypted_distance_bytes |-> <<>>]

\* TemplateEntry::new
TemplateEntryNew(user_id, ct_bytes, encrypted_key_bytes, encrypted_iv_bytes) ==
    [user_id |-> user_id,
     ciphertext |-> ct_bytes,
     encrypted_key_bytes |-> encrypted_key_bytes,
     encrypted_iv_bytes |-> encrypted_iv_bytes]

\* the Database with no template, as Database::load and handle_register
\* create it
EmptyTemplates == [u \in {} |-> <<>>]

\* an insert that keeps the entry a user already has
DatabaseInsertKeepFirst(templates, entry) ==
    [u \in (DOMAIN templates) \cup {entry.user_id} |->
        IF u \in DOMAIN templates THEN templates[u] ELSE entry]

\* Database::insert
DatabaseInsert(templates, entry) ==
    [u \in (DOMAIN templates) \cup {entry.user_id} |->
        IF u = entry.user_id THEN entry ELSE templates[u]]

\* Database::save, as the file it writes
DatabaseSave(templates) == [state |-> "ok", templates |-> templates]

\* a load that starts over with an empty store
DatabaseLoadFileFresh(file) == DatabaseSave(EmptyTemplates)

\* templates.json after a call of Database::load that returns Ok: created
\* empty when it did not exist, left alone when it parsed
DatabaseLoadFile(file) ==
    IF file.state = "absent" THEN DatabaseSave(EmptyTemplates) ELSE file

\* a call of set_server_key that does not happen
TraceSetServerKeySkipped(t) == t

\* set_server_key is called
TraceSetServerKey(t) == Append(t, "set_server_key")

\* homomorphic gates are executed
TraceGates(t) == Append(t, "gate")

\* the width the client accepts from its feature extraction
ClientFeatureWidth == 512

----------------------------------------------------------------------------
(* Initial values of the variable groups.                                  *)

InitTriv(k, v, d) ==
    /\ key = k
    /\ iv = v
    /\ data = d
    /\ run = 1
    /\ state = <<>>
    /\ clocks = 0
    /\ ks = <<>>
    /\ ksAt = <<>>
    /\ ciphertext = <<>>
    /\ decrypted = <<>>

InitFhe ==
    /\ call = <<>>
    /\ fstate = <<>>
    /\ fclocks = 0
    /\ fks = <<>>
    /\ fksAt = <<>>
    /\ fplain = <<>>

InitMatcher(x, y, r, d) ==
    /\ bits_a = x
    /\ bits_b = y
    /\ routine = r
    /\ diff = <<>>
    /\ acc = <<>>
    /\ carry = <<>>
    /\ idx = 0
    /\ dist = d
    /\ thr = 0
    /\ thr_bits = <<>>
    /\ gt = <<>>
    /\ eq = <<>>
    /\ li = 0
    /\ result = <<>>

InitSession ==
    /\ reg_request = <<>>
    /\ record = <<>>
    /\ request = <<>>
    /\ penrolled = <<>>
    /\ pprobe = <<>>
    /\ response = [state |-> "absent"]

InitGates ==
    /\ combine_gates = <<>>
    /\ xor_count = 0
    /\ and_count = 0

\* the server before its first request: empty exchange and database
\* directories, no evaluation key installed
InitServer ==
    /\ register_file = [state |-> "absent"]
    /\ verify_file = [state |-> "absent"]
    /\ reg_response = [state |-> "absent"]
    /\ server_key_file = [state |-> "absent"]
    /\ store = [state |-> "absent"]
    /\ backups = 0
    /\ slot = [state |-> "unset"]
    /\ trace = <<>>
    /\ outcome = "none"
    /\ polls = 0
    /\ origin = [register |-> "none", verify |-> "none"]

\* the client before its first call: no client key, nothing sent
InitClient ==
    /\ client = [key_file |-> [state |-> "absent"],
                 keygens |-> 0,
                 calls |-> 0,
                 drawn |-> [state |-> "none"],
                 waiting |-> [kind |-> "none"],
                 accepted |-> [kind |-> "none"]]
    /\ history = [pending |-> [register |-> 0, verify |-> 0],
                  answers |-> [register |-> 0, verify |-> 0],
                  registered |-> [u \in {} |-> <<>>]]

\* the u64 values rng.gen() gives a client session for its key and its IV,
\* with bits set in the lowest and in the highest limb
key_u64(seed) == <<3 * seed + 1, seed, 0, 2 ^ 15 + seed>>

iv_u64(seed) == <<5 * seed + 2, 0, 2 ^ 16 - 1, seed + 1>>

\* the key and the IV a client session draws from its random seed
SeedKey(seed) == u64_to_bits_80(key_u64(seed))

SeedIv(seed) == u64_to_bits_80(iv_u64(seed))

\* the encrypted true the homomorphic routines are handed
EncryptedTrue == Encrypt(TRUE, ClientKey)

----------------------------------------------------------------------------
(* Trivium::new and Trivium::process, step by step.                        *)

\* Trivium::new, lines 7-29: the asserts, then the state loaded, no clock yet
TriviumNew ==
    /\ pc = "new"
    /\ IF Len(key) # 80 \/ Len(iv) # 80
       THEN /\ pc' = "panic"
            /\ UNCHANGED <<state, clocks>>
       ELSE /\ state' = TriviumLoad(key, iv)
            /\ clocks' = 0
            /\ pc' = "warmup"
    /\ UNCHANGED <<mode, key, iv, data, run, ks, ksAt, ciphertext, decrypted,
                   fheVars, matchVars, sessVars, gateVars, srvVars, cliVars>>

\* one iteration of the warmup loop of Trivium::new; the output is dropped
TriviumWarmupClock ==
    /\ pc = "warmup"
    /\ clocks < WarmupCycles
    /\ state' = TriviumClock(state).state
    /\ clocks' = clocks + 1
    /\ UNCHANGED <<mode, pc, key, iv, data, run, ks, ksAt, ciphertext,
                   decrypted, fheVars, matchVars, sessVars, gateVars, srvVars, cliVars>>

\* Trivium::new returns and process is called on its result
TriviumWarmupDone ==
    /\ pc = "warmup"
    /\ clocks >= WarmupCycles
    /\ pc' = "process"
    /\ UNCHANGED <<mode, trivVars, fheVars, matchVars, sessVars, gateVars,
                   srvVars, cliVars>>

\* one element of the map of Trivium::process
TriviumProcessBit ==
    /\ pc = "process"
    /\ LET input == IF run = 1 THEN data ELSE ciphertext
           done == IF run = 1 THEN ciphertext ELSE decrypted
           c == TriviumClock(state)
       IN  /\ Len(done) < Len(input)
           /\ state' = c.state
           /\ clocks' = clocks + 1
           /\ IF run = 1
              THEN /\ ciphertext' = Append(ciphertext,
                                           ProcessXor(input[Len(done) + 1], c.output))
                   /\ ks' = Append(ks, c.output)
                   /\ ksAt' = Append(ksAt, clocks + 1)
                   /\ UNCHANGED decrypted
              ELSE /\ decrypted' = Append(decrypted,
                                          ProcessXor(input[Len(done) + 1], c.output))
                   /\ UNCHANGED <<ciphertext, ks, ksAt>>
    /\ UNCHANGED <<mode, pc, key, iv, data, run, fheVars, matchVars, sessVars, gateVars,
                   srvVars, cliVars>>

\* Trivium::process returns the collected bits
TriviumProcessReturn ==
    /\ pc = "process"
    /\ IF run = 1 THEN Len(ciphertext) = Len(data)
                  ELSE Len(decrypted) = Len(ciphertext)
    /\ pc' = "process_return"
    /\ UNCHANGED <<mode, trivVars, fheVars, matchVars, sessVars, gateVars,
                   srvVars, cliVars>>

\* the client's sanity check: trivium2 = Trivium::new(key, iv), then
\* trivium2.process(ciphertext)
ClientSanityDecrypt ==
    /\ mode = "cipher"
    /\ pc = "process_return"
    /\ run = 1
    /\ run' = 2
    /\ pc' = "new"
    /\ UNCHANGED <<mode, key, iv, data, state, clocks, ks, ksAt, ciphertext,
                   decrypted, fheVars, matchVars, sessVars, gateVars, srvVars, cliVars>>

\* the key and the IV are encrypted bit by bit and decrypt_homomorphic is
\* called with them, the ciphertext and an encrypted true
TranscipherCall ==
    /\ mode = "cipher"
    /\ pc = "process_return"
    /\ run = 2
    /\ call' = [ciphertext |-> ciphertext,
                encrypted_key |-> EncryptAll(key, ClientKey),
                encrypted_iv |-> EncryptAll(iv, ClientKey),
                encrypted_true |-> Encrypt(TRUE, ClientKey)]
    /\ pc' = "fhe_new"
    /\ UNCHANGED <<mode, trivVars, fstate, fclocks, fks, fksAt, fplain,
                   matchVars, sessVars, gateVars, srvVars, cliVars>>

----------------------------------------------------------------------------
(* decrypt_homomorphic, step by step.                                      *)

\* TriviumFhe::new, lines 22-72: the asserts, then the state loaded
TriviumFheNew ==
    /\ pc = "fhe_new"
    /\ IF Len(call.encrypted_key) # 80 \/ Len(call.encrypted_iv) # 80
       THEN /\ pc' = "panic"
            /\ UNCHANGED <<fstate, fclocks, fks, fksAt, xor_count, and_count>>
       ELSE /\ fstate' = TriviumFheLoad(call.encrypted_key, call.encrypted_iv,
                                        call.encrypted_true)
            /\ fclocks' = 0
            /\ fks' = <<>>
            /\ fksAt' = <<>>
            /\ xor_count' = Count(TriviumFheNewGates, "xor")
            /\ and_count' = Count(TriviumFheNewGates, "and")
            /\ pc' = "fhe_warmup"
    /\ UNCHANGED <<mode, trivVars, call, fplain, matchVars, sessVars, combine_gates,
                   srvVars, cliVars>>

\* one iteration of the warmup loop of TriviumFhe::new
TriviumFheWarmupClock ==
    /\ pc = "fhe_warmup"
    /\ fclocks < FheWarmupCycles
    /\ fstate' = TriviumFheClock(fstate).state
    /\ fclocks' = fclocks + 1
    /\ xor_count' = xor_count + Count(TriviumFheClockGates, "xor")
    /\ and_count' = and_count + Count(TriviumFheClockGates, "and")
    /\ UNCHANGED <<mode, pc, trivVars, call, fks, fksAt, fplain, matchVars,
                   sessVars, combine_gates, srvVars, cliVars>>

\* TriviumFhe::new returns and keystream(ciphertext.len()) is called
TriviumFheWarmupDone ==
    /\ pc = "fhe_warmup"
    /\ fclocks >= FheWarmupCycles
    /\ pc' = "fhe_keystream"
    /\ UNCHANGED <<mode, trivVars, fheVars, matchVars, sessVars, gateVars,
                   srvVars, cliVars>>

\* one element of the map of TriviumFhe::keystream
TriviumFheKeystreamClock ==
    /\ pc = "fhe_keystream"
    /\ Len(fks) < Len(call.ciphertext)
    /\ LET c == TriviumFheClock(fstate)
       IN  /\ fstate' = c.state
           /\ fks' = Append(fks, c.output)
           /\ fksAt' = Append(fksAt, fclocks + 1)
    /\ fclocks' = fclocks + 1
    /\ xor_count' = xor_count + Count(TriviumFheClockGates, "xor")
    /\ and_count' = and_count + Count(TriviumFheClockGates, "and")
    /\ UNCHANGED <<mode, pc, trivVars, call, fplain, matchVars, sessVars,
                   combine_gates, srvVars, cliVars>>

\* keystream returns; decrypt_homomorphic combines and returns
DecryptHomomorphicCombine ==
    /\ pc = "fhe_keystream"
    /\ Len(fks) = Len(call.ciphertext)
    /\ fplain' = Combine(call.ciphertext, fks, call.encrypted_true)
    /\ combine_gates' = CombineGates(call.ciphertext)
    /\ xor_count' = xor_count + Count(call.ciphertext, TRUE)
    /\ UNCHANGED and_count
    /\ pc' = "fhe_return"
    /\ UNCHANGED <<mode, trivVars, call, fstate, fclocks, fks, fksAt,
                   matchVars, sessVars, srvVars, cliVars>>

----------------------------------------------------------------------------
(* diff_bits, popcount_512 / popcount_1024 and leq_constant, step by step. *)

\* the distances the explored pairs of fingerprints have
FlipSet(n) == (0..MaxFlip) \cup {n \div 5, (n \div 5) + 1} \cup ((n - MaxFlip)..n)

\* the thresholds leq_constant is called with: up to the width n of the
\* fingerprints, and from 2n on, the first values a counter of the routine
\* for n bits cannot hold (2n = 2^k for its k bits)
ThresholdSet(n) ==
    (0..MaxFlip) \cup {n \div 5} \cup ((n - MaxFlip)..n) \cup ((2 * n)..(2 * n + MaxFlip))

\* the widths of the fingerprints a routine is called with that do not
\* make it fail: its own, and 512 for the legacy routines as well
ShimWidths(r) == IF r \in {128, 256} THEN {r, 512} ELSE {r}

\* diff_bits(E(a), E(b))
MatchDiffBits ==
    /\ mode = "match"
    /\ pc = "diff_call"
    /\ IF Len(bits_a) # Len(bits_b)
       THEN /\ pc' = "panic"
            /\ UNCHANGED diff
       ELSE /\ diff' = DiffBits(EncryptAll(bits_a, ClientKey),
                             EncryptAll(bits_b, ClientKey))
            /\ pc' = "popcount_call"
    /\ UNCHANGED <<mode, trivVars, fheVars, bits_a, bits_b, routine, acc, carry, idx,
                   dist, thr, thr_bits, gt, eq, li, result, sessVars, gateVars,
                   srvVars, cliVars>>

\* popcount_256 / popcount_128: the diff padded, popcount_512 called with it
PopcountShim ==
    /\ pc = "popcount_call"
    /\ routine \in {128, 256}
    /\ diff' = PopcountPad(diff, EncryptedTrue, routine)
    /\ pc' = "popcount_512"
    /\ UNCHANGED <<mode, trivVars, fheVars, bits_a, bits_b, routine, acc, carry, idx,
                   dist, thr, thr_bits, gt, eq, li, result, sessVars, gateVars,
                   srvVars, cliVars>>

\* popcount_512 / popcount_1024 up to the loop: the assert and the
\* accumulator
PopcountBegin ==
    /\ \/ pc = "popcount_call" /\ routine \in {512, 1024}
       \/ pc = "popcount_512"
    /\ IF Len(diff) # PopcountLen(routine)
       THEN /\ pc' = "panic"
            /\ UNCHANGED <<acc, idx>>
       ELSE /\ acc' = Repeat(FheFalse(EncryptedTrue), CounterWidth(routine))
            /\ idx' = 0
            /\ pc' = "popcount_loop"
    /\ UNCHANGED <<mode, trivVars, fheVars, bits_a, bits_b, routine, diff, carry, dist,
                   thr, thr_bits, gt, eq, li, result, sessVars, gateVars,
                   srvVars, cliVars>>

\* one iteration of the outer loop of the popcount routine
PopcountBit ==
    /\ pc = "popcount_loop"
    /\ idx < Len(diff)
    /\ LET r == Ripple(acc, diff[idx + 1], 1)
       IN  /\ acc' = r.acc
           /\ carry' = r.carry
    /\ idx' = idx + 1
    /\ UNCHANGED <<mode, pc, trivVars, fheVars, bits_a, bits_b, routine, diff, dist,
                   thr, thr_bits, gt, eq, li, result, sessVars, gateVars,
                   srvVars, cliVars>>

\* the popcount routine returns its accumulator
PopcountReturn ==
    /\ pc = "popcount_loop"
    /\ idx = Len(diff)
    /\ dist' = acc
    /\ pc' = "leq_call"
    /\ UNCHANGED <<mode, trivVars, fheVars, bits_a, bits_b, routine, diff, acc, carry,
                   idx, thr, thr_bits, gt, eq, li, result, sessVars, gateVars,
                   srvVars, cliVars>>

\* leq_constant up to its sweep: thr_bits, gt and eq
LeqBegin ==
    /\ pc = "leq_call"
    /\ \E t \in ThresholdSet(PopcountLen(routine)) :
          /\ thr' = t
          /\ thr_bits' = ThrBits(t, Len(dist))
    /\ gt' = FheFalse(EncryptedTrue)
    /\ eq' = EncryptedTrue
    /\ li' = Len(dist)
    /\ pc' = "leq_loop"
    /\ UNCHANGED <<mode, trivVars, fheVars, bits_a, bits_b, routine, diff, acc, carry,
                   idx, dist, result, sessVars, gateVars, srvVars, cliVars>>

\* one bit position of the sweep, from the most significant one down
LeqStep ==
    /\ pc = "leq_loop"
    /\ li > 0
    /\ LET r == LeqSweepStep(gt, eq, dist[li], thr_bits[li], EncryptedTrue)
       IN  /\ gt' = r.gt
           /\ eq' = r.eq
    /\ li' = li - 1
    /\ UNCHANGED <<mode, pc, trivVars, fheVars, bits_a, bits_b, routine, diff, acc,
                   carry, idx, dist, thr, thr_bits, result, sessVars, gateVars,
                   srvVars, cliVars>>

\* leq_constant returns NOT gt
LeqReturn ==
    /\ pc = "leq_loop"
    /\ li = 0
    /\ result' = fhe_not(gt, EncryptedTrue)
    /\ pc' = "leq_return"
    /\ UNCHANGED <<mode, trivVars, fheVars, bits_a, bits_b, routine, diff, acc, carry,
                   idx, dist, thr, thr_bits, gt, eq, li, sessVars, gateVars,
                   srvVars, cliVars>>

----------------------------------------------------------------------------
(* The producers of the requests: the client of the repository, and any    *)
(* other writer of the request files the server polls.                     *)

\* the pipelines in which requests are written and handled
SessionModes == {"verify", "sessions"}

\* the positions at which no request waits and no handler runs
Idle == {"enroll", "enrolled", "register_failed", "verify_failed", "done"}

\* the user ids the CLI is called with
Users(m) == IF m = "sessions" THEN {EnrolledUser, OtherUser} ELSE {EnrolledUser}

\* the seeds the verify calls of the client draw
Seeds(m) == IF m = "sessions" THEN {0} ELSE 0..MaxSeed

\* a check that passes when the self-decrypt differs
SanityPassedInverted(errors) == errors # 0

\* handle_register's sanity check of the self-decrypt: errors != 0 returns
\* the error
SanityPassed(errors) == errors = 0

\* the CLI is called: once at the position given, or, where calls follow
\* one another, whenever the call before has returned and the server is idle
ClientMayCall(first) ==
    \/ mode = "verify" /\ pc = first
    \/ /\ mode = "sessions"
       /\ pc \in Idle
       /\ client.waiting.kind = "none"
       /\ client.calls < MaxCalls

\* client handle_register up to its wait: the client key removed, the width
\* of the extracted features checked, the fingerprint encrypted with Trivium,
\* the self-decrypt checked, the client key loaded or, as none is left,
\* fresh FHE keys generated and the client key saved, key and IV encrypted,
\* the request written with the server key in it
ClientRegister ==
    /\ ClientMayCall("enroll")
    /\ Len(bits_a) = ClientFeatureWidth
    /\ \E user \in Users(mode), seed \in Seeds(mode) :
          LET id == client.calls + 1
              removed == [state |-> "absent"]
              key_bits == SeedKey(seed)
              iv_bits == SeedIv(seed)
              drawn == [state |-> "drawn", key_u64 |-> key_u64(seed),
                        iv_u64 |-> iv_u64(seed)]
              generated == removed.state = "absent"
              ck == IF generated THEN client.keygens + 1 ELSE removed.ck
              server_key_bytes_opt == IF generated THEN <<Serialize(ServerKeyOf(ck))>>
                                      ELSE <<>>
              ct == TriviumEncrypt(key_bits, iv_bits, bits_a)
              decrypted_local == TriviumEncrypt(key_bits, iv_bits, ct)
              body == RegisterRequestNew(user, ct,
                          Serialize(EncryptAll(key_bits, ck)),
                          Serialize(EncryptAll(iv_bits, ck)),
                          server_key_bytes_opt)
          IN  IF Len(bits_a) # ClientFeatureWidth
              THEN /\ pc' = "client_error"
                   /\ client' = [client EXCEPT !.key_file = removed, !.calls = id]
                   /\ UNCHANGED <<key, iv, ciphertext, decrypted, reg_request,
                                  register_file, origin, history>>
              ELSE /\ key' = key_bits
                   /\ iv' = iv_bits
                   /\ ciphertext' = ct
                   /\ decrypted' = decrypted_local
                   /\ IF ~SanityPassed(Hamming(decrypted_local, bits_a))
                      THEN /\ pc' = "client_error"
                           /\ client' = [client EXCEPT !.key_file = removed,
                                                       !.calls = id,
                                                       !.drawn = drawn]
                           /\ UNCHANGED <<reg_request, register_file, origin,
                                          history>>
                      ELSE /\ reg_request' = body
                           /\ register_file' = [state |-> "ok", body |-> body]
                           /\ origin' = [origin EXCEPT !.register = "client"]
                           /\ client' =
                                 [client EXCEPT
                                     !.key_file = IF generated
                                                  THEN [state |-> "ok", ck |-> ck]
                                                  ELSE removed,
                                     !.keygens = IF generated THEN @ + 1 ELSE @,
                                     !.calls = id,
                                     !.drawn = drawn,
                                     !.waiting = [kind |-> "register", call |-> id]]
                           /\ history' = [history EXCEPT !.pending.register = id]
                           /\ pc' = "register_request"
    /\ UNCHANGED <<mode, data, run, state, clocks, ks, ksAt, fheVars,
                   matchVars, record, request, penrolled, pprobe, response, gateVars,
                   verify_file, reg_response, server_key_file, store, backups, slot,
                   trace, outcome, polls>>

\* the shapes of the register requests another writer leaves
RegisterShapes == {"ok", "no_server_key", "malformed"}

\* another writer leaves a register_request.json: a request for features of
\* any width, with or without a server key, or a file that is not a request
RequesterRegister ==
    /\ mode = "verify"
    /\ pc = "enroll"
    /\ \E shape \in RegisterShapes :
          LET ct == TriviumEncrypt(key, iv, bits_a)
              body == RegisterRequestNew(EnrolledUser, ct,
                          Serialize(EncryptAll(key, ClientKey)),
                          Serialize(EncryptAll(iv, ClientKey)),
                          IF shape = "no_server_key" THEN <<>>
                          ELSE <<Serialize(ServerKeyOf(ClientKey))>>)
          IN  /\ ciphertext' = ct
              /\ reg_request' = body
              /\ register_file' = IF shape = "malformed" THEN [state |-> "malformed"]
                                  ELSE [state |-> "ok", body |-> body]
    /\ origin' = [origin EXCEPT !.register = "requester"]
    /\ history' = [history EXCEPT !.pending.register = 0]
    /\ pc' = "register_request"
    /\ UNCHANGED <<mode, key, iv, data, run, state, clocks, ks, ksAt, decrypted,
                   fheVars, matchVars, record, request, penrolled, pprobe, response,
                   gateVars, verify_file, reg_response, server_key_file, store,
                   backups, slot, trace, outcome, polls, client>>

\* client handle_verify up to its wait: the width of the probe features
\* checked, a fresh key and IV, the probe encrypted with Trivium, the client
\* key loaded, key, IV and true encrypted, the request written
ClientVerify ==
    /\ ClientMayCall("enrolled")
    /\ Len(bits_b) = ClientFeatureWidth
    /\ \E user \in Users(mode), seed \in Seeds(mode) :
          LET id == client.calls + 1
              key_bits == SeedKey(seed)
              iv_bits == SeedIv(seed)
              ct == TriviumEncrypt(key_bits, iv_bits, bits_b)
          IN  IF Len(bits_b) # ClientFeatureWidth \/ client.key_file.state # "ok"
              THEN /\ pc' = "client_error"
                   /\ client' = [client EXCEPT !.calls = id]
                   /\ UNCHANGED <<key, iv, ciphertext, request, verify_file, origin,
                                  polls, trace, outcome, history>>
              ELSE LET client_key == client.key_file.ck
                       body == VerifyRequestNew(user, ct,
                                   Serialize(EncryptAll(key_bits, client_key)),
                                   Serialize(EncryptAll(iv_bits, client_key)),
                                   Serialize(Encrypt(TRUE, client_key)))
                   IN  /\ key' = key_bits
                       /\ iv' = iv_bits
                       /\ ciphertext' = ct
                       /\ request' = body
                       /\ verify_file' = [state |-> "ok", body |-> body]
                       /\ origin' = [origin EXCEPT !.verify = "client"]
                       /\ client' = [client EXCEPT
                                        !.calls = id,
                                        !.drawn = [state |-> "drawn",
                                                   key_u64 |-> key_u64(seed),
                                                   iv_u64 |-> iv_u64(seed)],
                                        !.waiting = [kind |-> "verify", call |-> id]]
                       /\ history' = [history EXCEPT !.pending.verify = id]
                       /\ polls' = 0
                       /\ trace' = <<>>
                       /\ outcome' = "none"
                       /\ pc' = "verify_request"
    /\ UNCHANGED <<mode, data, run, state, clocks, ks, ksAt, decrypted, fheVars,
                   matchVars, reg_request, record, penrolled, pprobe, response,
                   gateVars, register_file, reg_response, server_key_file, store,
                   backups, slot>>

\* the shapes of the verify requests another writer leaves
VerifyShapes == {"ok", "unknown_user", "malformed", "corrupt_key", "corrupt_iv",
                 "corrupt_true", "short_key", "short_ciphertext"}

\* the VerifyRequest of a shape, for a probe ciphertext ct made with the
\* key and IV given
VerifyRequestShaped(shape, ct, key_bits, iv_bits) ==
    VerifyRequestNew(IF shape = "unknown_user" THEN OtherUser ELSE EnrolledUser,
                     IF shape = "short_ciphertext" THEN SubSeq(ct, 1, MaxShort)
                     ELSE ct,
                     IF shape = "corrupt_key" THEN CorruptBytes
                     ELSE IF shape = "short_key"
                     THEN Serialize(EncryptAll(SubSeq(key_bits, 1, 79), ClientKey))
                     ELSE Serialize(EncryptAll(key_bits, ClientKey)),
                     IF shape = "corrupt_iv" THEN CorruptBytes
                     ELSE Serialize(EncryptAll(iv_bits, ClientKey)),
                     IF shape = "corrupt_true" THEN CorruptBytes
                     ELSE Serialize(Encrypt(TRUE, ClientKey)))

\* another writer leaves a verify_request.json: a request for features of any
\* width, one for a user not enrolled, one with bytes that do not
\* deserialize, one with a key of 79 bits, one with a short ciphertext, or a
\* file that is not a request
RequesterVerify ==
    /\ mode = "verify"
    /\ pc = "enrolled"
    /\ \E seed \in 0..MaxSeed :
          LET key_bits == SeedKey(seed)
              iv_bits == SeedIv(seed)
              ct == TriviumEncrypt(key_bits, iv_bits, bits_b)
          IN  /\ key' = key_bits
              /\ iv' = iv_bits
              /\ ciphertext' = ct
              /\ \E shape \in VerifyShapes :
                    LET body == VerifyRequestShaped(shape, ct, key_bits, iv_bits)
                    IN  /\ request' = body
                        /\ verify_file' =
                              IF shape = "malformed" THEN [state |-> "malformed"]
                              ELSE [state |-> "ok", body |-> body]
    /\ origin' = [origin EXCEPT !.verify = "requester"]
    /\ history' = [history EXCEPT !.pending.verify = 0]
    /\ polls' = 0
    /\ trace' = <<>>
    /\ outcome' = "none"
    /\ pc' = "verify_request"
    /\ UNCHANGED <<mode, data, run, state, clocks, ks, ksAt, decrypted, fheVars,
                   matchVars, reg_request, record, penrolled, pprobe, response,
                   gateVars, register_file, reg_response, server_key_file, store,
                   backups, slot, client>>

\* wait_for_response finds the response file of the call in progress and
\* returns what it holds, and the call ends: handle_register removes the
\* response file, handle_verify returns at once on success = false and
\* removes the response file otherwise
ClientAccept ==
    /\ mode = "sessions"
    /\ client.waiting.kind # "none"
    /\ LET kind == client.waiting.kind
           file == IF kind = "register" THEN reg_response ELSE response
           removes == kind = "register" \/ file.success
       IN  /\ file.state = "written"
           /\ client' = [client EXCEPT
                            !.waiting = [kind |-> "none"],
                            !.accepted = [kind |-> kind,
                                          call |-> client.waiting.call,
                                          answers |-> history.answers[kind],
                                          success |-> file.success]]
           /\ reg_response' = IF kind = "register" THEN [state |-> "absent"]
                              ELSE reg_response
           /\ response' = IF kind = "verify" /\ removes THEN [state |-> "absent"]
                          ELSE response
           /\ history' = [history EXCEPT
                             !.answers[kind] = IF removes THEN 0 ELSE @]
    /\ UNCHANGED <<mode, pc, trivVars, fheVars, matchVars, reg_request, record,
                   request, penrolled, pprobe, gateVars, register_file, verify_file,
                   server_key_file, store, backups, slot, trace, outcome, polls,
                   origin>>

\* wait_for_response finds no response file until its timeout has passed and
\* returns the error; the call ends with it
ClientTimeout ==
    /\ mode = "sessions"
    /\ client.waiting.kind # "none"
    /\ IF client.waiting.kind = "register" THEN reg_response.state = "absent"
       ELSE response.state = "absent"
    /\ client' = [client EXCEPT !.waiting = [kind |-> "none"]]
    /\ UNCHANGED <<mode, pc, trivVars, fheVars, matchVars, sessVars, gateVars,
                   srvVars, history>>

\* templates.json becomes unreadable while a request waits for the server
StoreCorrupted ==
    /\ mode = "verify"
    /\ pc \in {"register_request", "verify_request"}
    /\ outcome = "none"
    /\ polls = 0
    /\ store.state # "corrupt"
    /\ store' = [state |-> "corrupt"]
    /\ UNCHANGED <<mode, pc, trivVars, fheVars, matchVars, sessVars, gateVars,
                   register_file, verify_file, reg_response, server_key_file,
                   backups, slot, trace, outcome, polls, origin, cliVars>>

\* server_key.bin becomes unreadable while a verify request waits
ServerKeyCorrupted ==
    /\ mode = "verify"
    /\ pc = "verify_request"
    /\ polls = 0
    /\ server_key_file.state = "ok"
    /\ server_key_file' = [state |-> "corrupt"]
    /\ UNCHANGED <<mode, pc, trivVars, fheVars, matchVars, sessVars, gateVars,
                   register_file, verify_file, reg_response, store,
                   backups, slot, trace, outcome, polls, origin, cliVars>>

----------------------------------------------------------------------------
(* The server: one turn of the main loop calls a handler when its request  *)
(* file exists.                                                            *)

\* a response written whether or not the store was saved
RegisterRespondAlways(file, saved, user_id) == RegisterResponseSuccess(user_id)

\* register_response.json after handle_register's match on db.save(): the
\* success response after Ok, the file as it was after Err
RegisterRespond(file, saved, user_id) ==
    IF saved THEN RegisterResponseSuccess(user_id) ELSE file

\* the register requests handled so far, with one more
Remember(registered, req) ==
    [u \in (DOMAIN registered) \cup {req.user_id} |->
        IF u = req.user_id THEN req ELSE registered[u]]

\* handle_register, called by the main loop while register_request.json
\* exists; the writes of templates.json succeed or fail together
ServerRegister ==
    /\ mode \in SessionModes
    /\ pc = "register_request"
    /\ register_file.state # "absent"
    /\ IF register_file.state = "malformed"
       THEN \* serde_json::from_str fails and ? returns; the file stays
            /\ outcome' = "Err: request JSON"
            /\ trace' = <<>>
            /\ pc' = "register_request"
            /\ UNCHANGED <<record, register_file, reg_response, server_key_file,
                           store, backups, history>>
       ELSE LET req == register_file.body
                key_given == Len(req.server_key_bytes) > 0
            IN  IF ~key_given /\ server_key_file.state = "absent"
                THEN \* the request removed, no response written
                     /\ outcome' = "Err: server key not found"
                     /\ trace' = <<>>
                     /\ register_file' = [state |-> "absent"]
                     /\ pc' = "register_failed"
                     /\ UNCHANGED <<record, reg_response, server_key_file, store,
                                    backups, history>>
                ELSE \E saved \in BOOLEAN :
                     LET unreadable == store.state = "corrupt"
                         db == IF store.state = "ok" THEN store.templates
                               ELSE EmptyTemplates
                         entry == TemplateEntryNew(req.user_id,
                                      bools_to_bytes(req.ciphertext),
                                      req.encrypted_key_bytes, req.encrypted_iv_bytes)
                     IN  /\ server_key_file' =
                               IF key_given
                               THEN [state |-> "ok", bytes |-> req.server_key_bytes[1]]
                               ELSE server_key_file
                         /\ backups' = IF unreadable THEN backups + 1 ELSE backups
                         /\ trace' = IF unreadable
                                     THEN <<"store_unreadable", "store_quarantined">>
                                     ELSE <<>>
                         /\ reg_response' = RegisterRespond(reg_response, saved,
                                                            req.user_id)
                         /\ IF saved
                            THEN /\ store' = DatabaseSave(DatabaseInsert(db, entry))
                                 /\ record' = entry
                                 /\ history' =
                                       [history EXCEPT
                                           !.answers.register = history.pending.register,
                                           !.registered = Remember(@, req)]
                                 /\ register_file' = [state |-> "absent"]
                                 /\ outcome' = "Ok"
                                 /\ pc' = "enrolled"
                            ELSE IF store.state = "ok"
                            THEN \* db.save() fails: the request removed, Err
                                 /\ register_file' = [state |-> "absent"]
                                 /\ outcome' = "Err: database save"
                                 /\ pc' = "register_failed"
                                 /\ UNCHANGED <<store, record, history>>
                            ELSE \* the save of the fresh store fails and ?
                                 \* returns, after the rename if there was a
                                 \* file; the request stays
                                 /\ store' = [state |-> "absent"]
                                 /\ outcome' = "Err: database save"
                                 /\ pc' = "register_request"
                                 /\ UNCHANGED <<register_file, record, history>>
    /\ UNCHANGED <<mode, trivVars, fheVars, matchVars, reg_request, request,
                   penrolled, pprobe, response, gateVars, verify_file, slot, polls,
                   origin, client>>

\* handle_verify, steps 1 to 4, called by the main loop while
\* verify_request.json exists: the request read, the server key loaded and
\* installed, the template found, the FHE data deserialized
HandleVerifyLoad ==
    /\ mode \in SessionModes
    /\ pc = "verify_request"
    /\ verify_file.state # "absent"
    /\ polls < MaxPolls
    /\ polls' = polls + 1
    /\ IF verify_file.state = "malformed"
       THEN /\ outcome' = "Err: request JSON"
            /\ trace' = <<>>
            /\ pc' = "verify_request"
            /\ UNCHANGED <<record, response, verify_file, store, slot, history>>
       ELSE IF server_key_file.state = "absent"
       THEN /\ outcome' = "Err: server key not found"
            /\ trace' = <<>>
            /\ pc' = "verify_request"
            /\ UNCHANGED <<record, response, verify_file, store, slot, history>>
       ELSE IF server_key_file.state = "corrupt"
       THEN /\ outcome' = "Err: server key"
            /\ trace' = <<>>
            /\ pc' = "verify_request"
            /\ UNCHANGED <<record, response, verify_file, store, slot, history>>
       ELSE LET req == verify_file.body
                installed == [state |-> "set",
                              key |-> Deserialize(server_key_file.bytes)]
            IN  /\ slot' = installed
                /\ IF store.state = "corrupt"
                   THEN \* Database::load()? returns the error
                        /\ outcome' = "Err: database"
                        /\ trace' = Append(TraceSetServerKey(<<>>), "store_unreadable")
                        /\ pc' = "verify_request"
                        /\ UNCHANGED <<record, response, verify_file, store, history>>
                   ELSE LET db == IF store.state = "ok" THEN store.templates
                                  ELSE EmptyTemplates
                        IN  /\ store' = DatabaseLoadFile(store)
                            /\ trace' = TraceSetServerKey(<<>>)
                            /\ IF req.user_id \notin DOMAIN db
                               THEN /\ response' =
                                          VerifyResponseError("User not found in database")
                                    /\ history' = [history EXCEPT !.answers.verify =
                                                      history.pending.verify]
                                    /\ verify_file' = [state |-> "absent"]
                                    /\ outcome' = "Err: user not registered"
                                    /\ pc' = "verify_failed"
                                    /\ UNCHANGED record
                               ELSE LET enrolled == db[req.user_id]
                                    IN  IF \/ ~Deserializable(enrolled.encrypted_key_bytes)
                                           \/ ~Deserializable(enrolled.encrypted_iv_bytes)
                                           \/ ~Deserializable(req.encrypted_key_bytes)
                                           \/ ~Deserializable(req.encrypted_iv_bytes)
                                           \/ ~Deserializable(req.encrypted_true_bytes)
                                        THEN /\ outcome' = "Err: FHE data"
                                             /\ pc' = "verify_request"
                                             /\ UNCHANGED <<record, response,
                                                            verify_file, history>>
                                        ELSE /\ record' = enrolled
                                             /\ outcome' = "running"
                                             /\ pc' = "verify_enrolled"
                                             /\ UNCHANGED <<response, verify_file,
                                                            history>>
    /\ UNCHANGED <<mode, trivVars, fheVars, matchVars, reg_request, request,
                   penrolled, pprobe, gateVars, register_file, reg_response,
                   server_key_file, backups, origin, client>>

\* handle_verify, step 5: the enrolled ciphertext unpacked and transciphered
\* by decrypt_homomorphic, whose TriviumFhe::new asserts the lengths and
\* installs the server key again
HandleVerifyEnrolled ==
    /\ mode \in SessionModes
    /\ pc = "verify_enrolled"
    /\ LET encrypted_key_enrolled == Deserialize(record.encrypted_key_bytes)
           encrypted_iv_enrolled == Deserialize(record.encrypted_iv_bytes)
           encrypted_true == Deserialize(request.encrypted_true_bytes)
       IN  IF Len(encrypted_key_enrolled) # 80 \/ Len(encrypted_iv_enrolled) # 80
           THEN /\ pc' = "panic"
                /\ outcome' = "panic"
                /\ UNCHANGED <<penrolled, trace>>
           ELSE /\ penrolled' = DecryptHomomorphic(bytes_to_bools(record.ciphertext),
                                   encrypted_key_enrolled, encrypted_iv_enrolled,
                                   encrypted_true)
                /\ trace' = TraceGates(TraceSetServerKey(trace))
                /\ pc' = "verify_probe"
                /\ UNCHANGED outcome
    /\ UNCHANGED <<mode, trivVars, fheVars, matchVars, reg_request, record,
                   request, pprobe, response, gateVars, register_file, verify_file,
                   reg_response, server_key_file, store, backups, slot, polls,
                   origin, cliVars>>

\* handle_verify, step 6: the probe ciphertext transciphered
HandleVerifyProbe ==
    /\ mode \in SessionModes
    /\ pc = "verify_probe"
    /\ LET encrypted_key_probe == Deserialize(request.encrypted_key_bytes)
           encrypted_iv_probe == Deserialize(request.encrypted_iv_bytes)
           encrypted_true == Deserialize(request.encrypted_true_bytes)
       IN  IF Len(encrypted_key_probe) # 80 \/ Len(encrypted_iv_probe) # 80
           THEN /\ pc' = "panic"
                /\ outcome' = "panic"
                /\ UNCHANGED <<pprobe, trace>>
           ELSE /\ pprobe' = DecryptHomomorphic(request.ciphertext,
                                   encrypted_key_probe, encrypted_iv_probe,
                                   encrypted_true)
                /\ trace' = TraceGates(TraceSetServerKey(trace))
                /\ pc' = "verify_match"
                /\ UNCHANGED outcome
    /\ UNCHANGED <<mode, trivVars, fheVars, matchVars, reg_request, record,
                   request, penrolled, response, gateVars, register_file,
                   verify_file, reg_response, server_key_file, store, backups, slot,
                   polls, origin, cliVars>>

\* handle_verify, step 7: diff_bits, popcount_1024 and leq_constant with the
\* threshold of the handler
HandleVerifyMatch ==
    /\ mode \in SessionModes
    /\ pc = "verify_match"
    /\ LET encrypted_true == Deserialize(request.encrypted_true_bytes)
       IN  IF Len(penrolled) # Len(pprobe)
           THEN \* the assert of diff_bits
                /\ pc' = "panic"
                /\ outcome' = "panic"
                /\ UNCHANGED <<diff, dist, thr, result, trace>>
           ELSE LET d == DiffBits(penrolled, pprobe)
                IN  IF Len(d) # PopcountLen(1024)
                    THEN \* the assert of popcount_1024
                         /\ diff' = d
                         /\ trace' = TraceGates(trace)
                         /\ pc' = "panic"
                         /\ outcome' = "panic"
                         /\ UNCHANGED <<dist, thr, result>>
                    ELSE LET distance_fhe == Popcount(d, encrypted_true, 1024)
                         IN  /\ diff' = d
                             /\ dist' = distance_fhe
                             /\ thr' = VerifyThreshold
                             /\ result' = LeqConstant(distance_fhe, VerifyThreshold,
                                                      encrypted_true)
                             /\ trace' = TraceGates(trace)
                             /\ pc' = "verify_respond"
                             /\ UNCHANGED outcome
    /\ UNCHANGED <<mode, trivVars, fheVars, bits_a, bits_b, routine, acc, carry,
                   idx, thr_bits, gt, eq, li, sessVars, gateVars, register_file,
                   verify_file, reg_response, server_key_file, store, backups, slot,
                   polls, origin, cliVars>>

\* handle_verify, steps 8 to 11: the response with E(match) and
\* E(distance) written, the request removed
HandleVerifyRespond ==
    /\ mode \in SessionModes
    /\ pc = "verify_respond"
    /\ response' = VerifyResponseSuccess(Serialize(result), Serialize(dist))
    /\ history' = [history EXCEPT !.answers.verify = history.pending.verify]
    /\ verify_file' = [state |-> "absent"]
    /\ outcome' = "Ok"
    /\ pc' = "done"
    /\ UNCHANGED <<mode, trivVars, fheVars, matchVars, reg_request, record,
                   request, penrolled, pprobe, gateVars, register_file, reg_response,
                   server_key_file, store, backups, slot, trace, polls, origin,
                   client>>

----------------------------------------------------------------------------
(* The five specifications.                                                *)

\* either Trivium::new is called with a key, an IV and a plaintext, or
\* decrypt_homomorphic is called with a key or an IV of another length
InitCipher ==
    /\ mode = "cipher"
    /\ \/ /\ pc = "new"
          /\ \E k \in KeySet, v \in IvSet, d \in DataSet : InitTriv(k, v, d)
          /\ InitFhe
       \/ /\ pc = "new"
          /\ \E k \in OffLengthSet, v \in IvSet \cup OffLengthSet :
                InitTriv(k, v, PatternBits(1, 1))
          /\ InitFhe
       \/ /\ pc = "new"
          /\ \E k \in KeySet, v \in OffLengthSet : InitTriv(k, v, PatternBits(1, 1))
          /\ InitFhe
       \/ /\ pc = "fhe_new"
          /\ InitTriv(<<>>, <<>>, <<>>)
          /\ \E k \in KeySet \cup OffLengthSet, v \in OffLengthSet :
                /\ call = [ciphertext |-> PatternBits(1, 1),
                           encrypted_key |-> EncryptAll(k, ClientKey),
                           encrypted_iv |-> EncryptAll(v, ClientKey),
                           encrypted_true |-> Encrypt(TRUE, ClientKey)]
          /\ fstate = <<>>
          /\ fclocks = 0
          /\ fks = <<>>
          /\ fksAt = <<>>
          /\ fplain = <<>>
       \/ /\ pc = "fhe_new"
          /\ InitTriv(<<>>, <<>>, <<>>)
          /\ \E k \in OffLengthSet, v \in IvSet :
                /\ call = [ciphertext |-> PatternBits(1, 1),
                           encrypted_key |-> EncryptAll(k, ClientKey),
                           encrypted_iv |-> EncryptAll(v, ClientKey),
                           encrypted_true |-> Encrypt(TRUE, ClientKey)]
          /\ fstate = <<>>
          /\ fclocks = 0
          /\ fks = <<>>
          /\ fksAt = <<>>
          /\ fplain = <<>>
    /\ InitMatcher(<<>>, <<>>, 1024, <<>>)
    /\ InitSession
    /\ InitGates
    /\ InitServer
    /\ InitClient

NextCipher ==
    \/ TriviumNew
    \/ TriviumWarmupClock
    \/ TriviumWarmupDone
    \/ TriviumProcessBit
    \/ TriviumProcessReturn
    \/ ClientSanityDecrypt
    \/ TranscipherCall
    \/ TriviumFheNew
    \/ TriviumFheWarmupClock
    \/ TriviumFheWarmupDone
    \/ TriviumFheKeystreamClock
    \/ DecryptHomomorphicCombine

SpecCipher == InitCipher /\ [][NextCipher]_vars

\* either two fingerprints of a width the routine serves for the whole
\* matcher, or two short bit sequences of equal or different length, or a
\* counter for leq_constant alone
InitMatch ==
    /\ mode = "match"
    /\ InitTriv(<<>>, <<>>, <<>>)
    /\ InitFhe
    /\ InitSession
    /\ InitGates
    /\ InitServer
    /\ InitClient
    /\ \E r \in {128, 256, 512, 1024} :
          \/ /\ pc = "diff_call"
             /\ \E n \in ShimWidths(r), w \in 0..MaxDataWord :
                   \E m \in FlipSet(n) :
                      LET x == PatternBits(n, w)
                      IN  \E y \in {FlipFirst(x, m), FlipLast(x, m)} :
                             InitMatcher(x, y, r, <<>>)
          \/ /\ pc = "diff_call"
             /\ \E la \in {MaxShort - 1, MaxShort}, lb \in {MaxShort - 1, MaxShort} :
                   InitMatcher(PatternBits(la, 1), PatternBits(lb, 0), r, <<>>)
          \/ /\ pc = "leq_call"
             /\ r \in {512, 1024}
             /\ \E d \in 0..(2 ^ CounterWidth(r) - 1) :
                   InitMatcher(<<>>, <<>>, r,
                       EncryptAll(ValueBits(d, CounterWidth(r)), ClientKey))

NextMatch ==
    \/ MatchDiffBits
    \/ PopcountShim
    \/ PopcountBegin
    \/ PopcountBit
    \/ PopcountReturn
    \/ LeqBegin
    \/ LeqStep
    \/ LeqReturn

SpecMatch == InitMatch /\ [][NextMatch]_vars

\* the differing bits of the explored enrolled and probe fingerprints of
\* the width popcount_1024 counts
VerifyFlips == {0, 1, 204, 205, 1023, 1024}

\* the features of the session: 512 bits as the client extracts them, or
\* 1024 bits as the server's matcher counts them
InitVerify ==
    /\ mode = "verify"
    /\ pc = "enroll"
    /\ \E n \in {ClientFeatureWidth, PopcountLen(1024)} :
          \E m \in IF n = ClientFeatureWidth THEN {0, MaxFlip} ELSE VerifyFlips :
             LET x == PatternBits(n, MaxDataWord)
             IN  /\ InitTriv(SeedKey(0), SeedIv(0), x)
                 /\ InitMatcher(x, FlipFirst(x, m), 1024, <<>>)
    /\ InitFhe
    /\ InitSession
    /\ InitGates
    /\ InitServer
    /\ InitClient

NextVerify ==
    \/ ClientRegister
    \/ RequesterRegister
    \/ StoreCorrupted
    \/ ServerKeyCorrupted
    \/ ServerRegister
    \/ ClientVerify
    \/ RequesterVerify
    \/ HandleVerifyLoad
    \/ HandleVerifyEnrolled
    \/ HandleVerifyProbe
    \/ HandleVerifyMatch
    \/ HandleVerifyRespond

SpecVerify == InitVerify /\ [][NextVerify]_vars

\* the calls of the client's CLI one after the other, for features of the
\* width the client extracts, against the server
InitSessions ==
    /\ mode = "sessions"
    /\ pc = "enroll"
    /\ \E m \in {0, MaxFlip} :
          LET x == PatternBits(ClientFeatureWidth, MaxDataWord)
          IN  /\ InitTriv(SeedKey(0), SeedIv(0), x)
              /\ InitMatcher(x, FlipFirst(x, m), 1024, <<>>)
    /\ InitFhe
    /\ InitSession
    /\ InitGates
    /\ InitServer
    /\ InitClient

NextSessions ==
    \/ ClientRegister
    \/ ClientVerify
    \/ ClientAccept
    \/ ClientTimeout
    \/ ServerRegister
    \/ HandleVerifyLoad
    \/ HandleVerifyEnrolled
    \/ HandleVerifyProbe
    \/ HandleVerifyMatch

SpecSessions == InitSessions /\ [][NextSessions]_vars

\* the routines of the shared crate the server calls, each from its call:
\* the two pipelines of the cipher and of the matcher side by side
InitRoutines ==
    \/ InitCipher
    \/ InitMatch

NextRoutines ==
    \/ NextCipher
    \/ NextMatch

SpecRoutines == InitRoutines /\ [][NextRoutines]_vars

----------------------------------------------------------------------------
(* Properties of the cipher pipeline.                                      *)

Zeros80 == Repeat(FALSE, 80)

HasBoth(bits) == (\E i \in 1..Len(bits) : bits[i]) /\ (\E i \in 1..Len(bits) : ~bits[i])

\* C1: the keystream bits of the plaintext Trivium and the decrypted
\* keystream bits of TriviumFhe for the same key and IV are the same, bit
\* for bit, and keystream(n) returns as many bits as process consumed.
C1_KeystreamsAgree ==
    /\ Len(fks) <= Len(ks)
    /\ \A i \in 1..Len(fks) : Decrypt(fks[i], ClientKey) = ks[i]
    /\ pc = "fhe_return" => Len(fks) = Len(ks)

C1_Witness ==
    /\ pc = "fhe_return"
    /\ Len(fks) = Len(data)
    /\ Len(fks) >= 64
    /\ key # Zeros80
    /\ iv # Zeros80
    /\ HasBoth(ks)

\* C2: transciphering the Trivium ciphertext of p under E(key), E(iv) and
\* E(true) and decrypting every bit gives p: same length, same bits.
C2_TranscipherRoundTrip ==
    pc = "fhe_return" =>
        /\ Len(fplain) = Len(data)
        /\ DecryptAll(fplain, ClientKey) = data

C2_Witness ==
    /\ pc = "fhe_return"
    /\ Len(data) >= 64
    /\ HasBoth(data)
    /\ HasBoth(ciphertext)
    /\ ciphertext # data
    /\ key # Zeros80

\* C5: process with a fresh Trivium(key, iv) applied to the result of
\* process with a fresh Trivium(key, iv) gives the plaintext back.
C5_ProcessInvolution ==
    /\ run = 2 => decrypted = SubSeq(data, 1, Len(decrypted))
    /\ pc \in {"fhe_new", "fhe_warmup", "fhe_keystream", "fhe_return"} => decrypted = data

C5_Witness ==
    /\ pc = "fhe_new"
    /\ Len(data) >= 64
    /\ decrypted = data
    /\ ciphertext # data
    /\ HasBoth(data)
    /\ HasBoth(ks)

\* the feedback bits of a clock, from the state before it
F1(s) == Xor(Xor(Xor(At(s, 65), At(s, 92)), At(s, 90) /\ At(s, 91)), At(s, 170))

F2(s) == Xor(Xor(Xor(At(s, 161), At(s, 176)), At(s, 174) /\ At(s, 175)), At(s, 263))

F3(s) == Xor(Xor(Xor(At(s, 242), At(s, 287)), At(s, 285) /\ At(s, 286)), At(s, 68))

\* C7: every step that clocks the plaintext Trivium leaves f3 at index 0,
\* f1 at index 93, f2 at index 177 and the old bit i-1 at every other
\* index i, which is the state the three shift_register calls of
\* TriviumFhe::clock produce from the same state.
C7_ClockShiftsRegisters ==
    [][clocks' = clocks + 1 =>
        /\ Len(state') = 288
        /\ At(state', 0) = F3(state)
        /\ At(state', 93) = F1(state)
        /\ At(state', 177) = F2(state)
        /\ \A i \in (1..287) \ {93, 177} : At(state', i) = At(state, i - 1)
        /\ state' = DecryptAll(TriviumFheClock(EncryptAll(state, ClientKey)).state,
                               ClientKey)]_vars

\* a clocked state in which the last bit of each register differs from the
\* bit that the next clock feeds into the following register
C7_Witness ==
    /\ pc = "process"
    /\ Len(ciphertext) > 0
    /\ Len(ciphertext) < Len(data)
    /\ At(state, 92) # F1(state)
    /\ At(state, 176) # F2(state)
    /\ At(state, 287) # F3(state)

Layout(s, k, v) ==
    /\ Len(s) = 288
    /\ \A i \in 0..287 :
          At(s, i) = IF i <= 79 THEN k[i + 1]
                     ELSE IF i >= 93 /\ i <= 172 THEN v[i - 92]
                     ELSE i >= 285

\* C8: before the first warmup clock the state holds the key at 0..79, the
\* IV at 93..172, true at 285..287 and false elsewhere, in Trivium::new and
\* (decrypted) in TriviumFhe::new.
C8_InitialLayout ==
    /\ (pc = "warmup" /\ clocks = 0) => Layout(state, key, iv)
    /\ (pc = "fhe_warmup" /\ fclocks = 0) =>
            Layout(DecryptAll(fstate, ClientKey), key, iv)

C8_Witness ==
    /\ pc = "fhe_warmup"
    /\ fclocks = 0
    /\ Len(fstate) = 288
    /\ \E i \in 1..80 : key[i]
    /\ \E i \in 1..80 : iv[i]
    /\ key # iv

\* C9: the k-th bit that process or keystream produces comes from clock
\* number 1152 + k since the load of the state; the 1152 clocks before the
\* first output bit have their output discarded.
C9_WarmupBeforeOutput ==
    /\ \A k \in 1..Len(ks) : ksAt[k] = 1152 + k
    /\ \A k \in 1..Len(fks) : fksAt[k] = 1152 + k
    /\ Len(ksAt) = Len(ks)
    /\ Len(fksAt) = Len(fks)
    /\ (pc = "process" /\ run = 1) => clocks = 1152 + Len(ciphertext)
    /\ (pc = "process" /\ run = 2) => clocks = 1152 + Len(decrypted)
    /\ pc = "fhe_keystream" => fclocks = 1152 + Len(fks)
    /\ pc = "warmup" => clocks <= 1152
    /\ pc = "fhe_warmup" => fclocks <= 1152

C9_Witness ==
    /\ pc = "fhe_return"
    /\ Len(ks) >= 64
    /\ Len(fks) = Len(ks)
    /\ Len(decrypted) = Len(ks)

\* the first 8 bytes of the eSTREAM keystream of Trivium for the all-zero
\* key and IV (FB E0 BF 26 58 59 05 1B), bit 0 of the stream in the least
\* significant bit of byte 0
EstreamBytes == <<251, 224, 191, 38, 88, 89, 5, 27>>

EstreamBit(i) == ((EstreamBytes[((i - 1) \div 8) + 1] \div (2 ^ ((i - 1) % 8))) % 2) = 1

\* C10: with the all-zero key and IV the first 64 keystream bits of the
\* plaintext Trivium are the eSTREAM reference keystream.
C10_EstreamVector ==
    (key = Zeros80 /\ iv = Zeros80) =>
        \A i \in 1..Len(ks) : i <= 64 => ks[i] = EstreamBit(i)

C10_Witness ==
    /\ key = Zeros80
    /\ iv = Zeros80
    /\ Len(ks) >= 64
    /\ pc = "fhe_return"

----------------------------------------------------------------------------
(* Properties of the matcher.                                              *)

\* C3: the counter popcount_512 / popcount_1024 returns for
\* diff_bits(E(a), E(b)), decrypted and read least significant bit first, is
\* the Hamming distance of a and b.
C3_PopcountIsHamming ==
    (mode = "match" /\ Len(diff) > 0 /\ pc \in {"leq_call", "leq_loop", "leq_return"}) =>
        BitsValue(DecryptAll(dist, ClientKey)) = Hamming(bits_a, bits_b)

C3_Witness ==
    /\ mode = "match"
    /\ pc = "leq_call"
    /\ routine = 512
    /\ Len(bits_a) = 512
    /\ HasBoth(bits_a)
    /\ Hamming(bits_a, bits_b) = 512
    /\ BitsValue(DecryptAll(dist, ClientKey)) = 512

----------------------------------------------------------------------------
(* Properties of the verify session.                                       *)

\* C6: the E(distance) of the verify response decrypts, 11 bits read least
\* significant bit first, to the Hamming distance of the enrolled and the
\* probe fingerprint, and E(match) decrypts to true exactly when that
\* distance is at most 204: 204 differing bits match, 205 do not.
C6_VerifyThreshold ==
    (mode = "verify" /\ pc = "done") =>
        LET d == DecryptAll(Deserialize(response.encrypted_distance_bytes), ClientKey)
            m == Decrypt(Deserialize(response.encrypted_match_bytes), ClientKey)
            H == Hamming(bits_a, bits_b)
        IN  /\ response.success
            /\ Len(d) = 11
            /\ BitsValue(d) = H
            /\ m = (H <= 204)
            /\ H = 204 => m
            /\ H = 205 => ~m

C6_Witness ==
    /\ mode = "verify"
    /\ pc = "done"
    /\ Len(bits_a) = 1024
    /\ Len(bits_b) = 1024
    /\ Hamming(bits_a, bits_b) = 205
    /\ ~Decrypt(Deserialize(response.encrypted_match_bytes), ClientKey)
    /\ key # DecryptAll(Deserialize(record.encrypted_key_bytes), ClientKey)

\* C11: the counter a popcount routine returns for a diff of the width N it
\* serves has exactly ceil(log2(N + 1)) bits, the W with
\* 2^(W-1) < N + 1 <= 2^W: 8 for popcount_128, 9 for popcount_256, 10 for
\* popcount_512, 11 for popcount_1024.
C11_CounterWidth ==
    (mode = "match" /\ pc = "leq_call" /\ Len(diff) > 0 /\ Len(bits_a) = routine) =>
        /\ 2 ^ (Len(dist) - 1) < routine + 1
        /\ routine + 1 <= 2 ^ Len(dist)

\* C12: after every diff bit the popcount routine has consumed, the carry
\* out of the most significant accumulator bit is false; no differing bit
\* counts 0, N differing bits count N, and popcount_1024 holds 1024 in its
\* 11 bits.
C12_AccumulatorNeverWraps ==
    (mode = "match" /\ pc = "popcount_loop") =>
        /\ idx > 0 => ~Decrypt(carry, ClientKey)
        /\ idx = Len(diff) =>
              LET v == BitsValue(DecryptAll(acc, ClientKey))
                  H == Hamming(bits_a, bits_b)
              IN  /\ H = 0 => v = 0
                  /\ H = Len(bits_a) => v = Len(bits_a)
                  /\ (routine = 1024 /\ H = 1024) => (Len(acc) = 11 /\ v = 1024)

C12_Witness ==
    /\ mode = "match"
    /\ pc = "popcount_loop"
    /\ routine = 1024
    /\ idx = 1024
    /\ \A i \in 1..1024 : Decrypt(diff[i], ClientKey)
    /\ BitsValue(DecryptAll(acc, ClientKey)) = 1024
    /\ ~Decrypt(carry, ClientKey)

----------------------------------------------------------------------------
(* Properties of the combining stage and of the asserts.                   *)


\* C13: output bit i of decrypt_homomorphic is keystream bit k_i itself
\* where ciphertext bit c_i is 0 and k_i XOR E(true) where c_i is 1; the
\* combining stage executes no AND gate, one XOR gate for every c_i = 1 and
\* no gate for a c_i = 0.
C13_CombineGates ==
    (mode = "cipher" /\ pc = "fhe_return") =>
        LET ct == call.ciphertext
        IN  /\ Len(fplain) = Len(ct)
            /\ Len(combine_gates) = Len(ct)
            /\ \A i \in 1..Len(ct) :
                  /\ ~ct[i] => (fplain[i] = fks[i] /\ combine_gates[i] = <<>>)
                  /\ ct[i] => /\ fplain[i] = FheXor(fks[i], call.encrypted_true)
                              /\ combine_gates[i] = <<"xor">>
                  /\ Count(combine_gates[i], "and") = 0

C13_Witness ==
    /\ mode = "cipher"
    /\ pc = "fhe_return"
    /\ Len(call.ciphertext) >= 64
    /\ HasBoth(call.ciphertext)
    /\ HasBoth(DecryptAll(fks, ClientKey))
    /\ \E i \in 1..Len(fplain) : call.ciphertext[i] /\ fplain[i] # fks[i]

\* C14: no call of Trivium::new, TriviumFhe::new, diff_bits or a popcount
\* routine ends in a panic, whatever the lengths of its arguments.
C14_NoPanic == pc # "panic"

----------------------------------------------------------------------------
(* Properties of the server's handlers.                                    *)

\* C15: when a handler ends on a boundary-validation failure (a register
\* without a server key while none is persisted, a verify for a user not
\* enrolled, a ciphertext or key of the wrong length), its response file is
\* written with success = false and a message, and its request file is gone.
C15_BoundaryFailureAnswered ==
    /\ (mode = "verify" /\ pc = "register_failed"
           /\ outcome = "Err: server key not found") =>
          /\ reg_response.state = "written"
          /\ ~reg_response.success
          /\ "message" \in DOMAIN reg_response
          /\ register_file.state = "absent"
    /\ (mode = "verify" /\ pc \in {"verify_failed", "panic"}) =>
          /\ response.state = "written"
          /\ ~response.success
          /\ "message" \in DOMAIN response
          /\ verify_file.state = "absent"

\* the errors of a handler that come from bytes that do not deserialize
DeserializationFailures == {"Err: request JSON", "Err: FHE data", "Err: server key"}

\* C16: after a handler call that failed to deserialize its request, a field
\* of it or the persisted evaluation key, the request file is gone, and the
\* main loop has called handle_verify for that request once only.
C16_BadRequestDiscarded ==
    (mode = "verify" /\ outcome \in DeserializationFailures) =>
        /\ register_file.state = "absent"
        /\ verify_file.state = "absent"
        /\ polls <= 1

\* C17: a handler call that finds templates.json unreadable renames it to a
\* backup, leaves a fresh store behind and goes on with its request.
C17_StoreQuarantined ==
    (/\ mode = "verify"
     /\ Count(trace, "store_unreadable") > 0
     /\ outcome # "Err: database save") =>
        /\ Count(trace, "store_quarantined") > 0
        /\ backups > 0
        /\ store.state = "ok"
        /\ outcome # "Err: database"

\* C18: in a call of handle_verify every homomorphic gate runs after a call
\* of set_server_key of that call, with the persisted evaluation key in the
\* slot.
C18_KeyInstalledBeforeGates ==
    mode = "verify" =>
        /\ \A i \in 1..Len(trace) :
              trace[i] = "gate" => \E j \in 1..(i - 1) : trace[j] = "set_server_key"
        /\ Count(trace, "gate") > 0 =>
              (slot.state = "set" /\ slot.key = ServerKeyOf(ClientKey))

C18_Witness ==
    /\ mode = "verify"
    /\ pc = "done"
    /\ response.success
    /\ Count(trace, "gate") >= 3
    /\ trace[1] = "set_server_key"

\* C19: a call of handle_verify that runs gates calls set_server_key once, as
\* its first homomorphic step, and not again.
C19_SlotSetOnce ==
    (mode = "verify" /\ Count(trace, "gate") > 0) =>
        /\ trace[1] = "set_server_key"
        /\ Count(trace, "set_server_key") = 1

\* C20: the call of handle_verify for a verify request of the client, for a
\* user the client registered, ends with a response with success = true and
\* E(match) and E(distance) in it.
C20_ClientVerifyAnswered ==
    (/\ mode = "verify"
     /\ origin.register = "client"
     /\ origin.verify = "client"
     /\ pc \in {"panic", "verify_failed", "done"}) =>
        /\ pc = "done"
        /\ response.state = "written"
        /\ response.success
        /\ Deserializable(response.encrypted_match_bytes)
        /\ Deserializable(response.encrypted_distance_bytes)

----------------------------------------------------------------------------
(* Properties of the template store and of the sessions.                   *)

\* the positions of a verify session at which the template of the enrolled
\* user is in the store
AfterEnrolment == {"enrolled", "verify_request", "verify_enrolled", "verify_probe",
                   "verify_match", "verify_respond", "done"}

\* C24: for a ciphertext whose length is a multiple of 8, the bytes
\* handle_register stores hold bit 8i+j of the ciphertext in bit j of byte i,
\* and bytes_to_bools gives back, at verify, the ciphertext the register
\* request carried.
C24_PackRoundTrip ==
    (/\ mode = "verify"
     /\ pc \in AfterEnrolment
     /\ Len(reg_request.ciphertext) % 8 = 0) =>
        LET b == reg_request.ciphertext
            bytes == record.ciphertext
        IN  /\ Len(bytes) * 8 = Len(b)
            /\ \A i \in 0..(Len(bytes) - 1) : \A j \in 0..7 :
                   (((bytes[i + 1] \div (2 ^ j)) % 2) = 1) = b[8 * i + j + 1]
            /\ bytes_to_bools(bytes) = b

C24_Witness ==
    /\ mode = "verify"
    /\ pc = "verify_probe"
    /\ Len(reg_request.ciphertext) = 1024
    /\ Len(record.ciphertext) = 128
    /\ \E i \in 1..Len(record.ciphertext) : record.ciphertext[i] \notin {0, 255}
    /\ Len(penrolled) = 1024

\* a step of handle_verify: the main loop calls it, or it goes on
HandleVerifyStep ==
    /\ mode = "verify"
    /\ \/ pc = "verify_request" /\ polls' = polls + 1
       \/ pc \in {"verify_enrolled", "verify_probe", "verify_match", "verify_respond"}

\* C22: no step of handle_verify, on the path to the response or on a path
\* to an error, changes templates.json, but for creating it with no record
\* when it does not exist.
C22_VerifyLeavesStore ==
    [][HandleVerifyStep =>
          \/ store' = store
          \/ store.state = "absent" /\ store' = DatabaseSave(EmptyTemplates)]_vars

C22_Witness ==
    /\ mode = "verify"
    /\ pc = "done"
    /\ outcome = "Ok"
    /\ response.success
    /\ store.state = "ok"
    /\ DOMAIN store.templates = {EnrolledUser}
    /\ store.templates[EnrolledUser] = record

----------------------------------------------------------------------------
(* Properties of the homomorphic cipher's cost and state.                  *)

\* C25: after TriviumFhe::new has synthesized fhe_false, every call of
\* TriviumFhe::clock adds 11 XOR gates and 3 AND gates and nothing else
\* does, so that when keystream(n) returns 3 * (1152 + n) AND gates and
\* 11 * (1152 + n) + 1 XOR gates have been executed.
C25_GateCounts ==
    (mode = "cipher" /\ pc \in {"fhe_warmup", "fhe_keystream"}) =>
        /\ xor_count = 11 * fclocks + 1
        /\ and_count = 3 * fclocks
        /\ (pc = "fhe_keystream" /\ Len(fks) = Len(call.ciphertext)) =>
              /\ and_count = 3 * (1152 + Len(call.ciphertext))
              /\ xor_count = 11 * (1152 + Len(call.ciphertext)) + 1

C25_Witness ==
    /\ mode = "cipher"
    /\ pc = "fhe_keystream"
    /\ Len(call.ciphertext) = MaxLen
    /\ Len(fks) = MaxLen
    /\ and_count = 3 * (1152 + MaxLen)
    /\ xor_count = 11 * (1152 + MaxLen) + 1

\* C26: the state of a Trivium and of a TriviumFhe has 288 elements from its
\* construction on, through every warmup clock and every keystream clock.
C26_StateLength ==
    mode = "cipher" =>
        /\ pc \in {"warmup", "process", "process_return"} => Len(state) = 288
        /\ pc \in {"fhe_warmup", "fhe_keystream", "fhe_return"} => Len(fstate) = 288
        /\ Len(state) \in {0, 288}
        /\ Len(fstate) \in {0, 288}

C26_Witness ==
    /\ mode = "cipher"
    /\ pc = "fhe_keystream"
    /\ clocks = 1152 + MaxLen
    /\ Len(state) = 288
    /\ fclocks = 1152 + MaxLen
    /\ Len(fstate) = 288

\* the client key a serialized vector of ciphertexts was encrypted under
KeyOf(bytes) == Deserialize(bytes)[1].ck

\* C21: when handle_register has ended with Ok for some requests,
\* templates.json holds one record for each user id among them and no
\* other, with the ciphertext, E(key) and E(iv) of the last of the requests
\* for that user id.
C21_OneRecordPerUser ==
    mode = "sessions" =>
        IF store.state = "ok"
        THEN /\ DOMAIN store.templates = DOMAIN history.registered
             /\ \A u \in DOMAIN history.registered :
                   LET entry == store.templates[u]
                       req == history.registered[u]
                   IN  /\ entry.user_id = u
                       /\ bytes_to_bools(entry.ciphertext) = req.ciphertext
                       /\ entry.encrypted_key_bytes = req.encrypted_key_bytes
                       /\ entry.encrypted_iv_bytes = req.encrypted_iv_bytes
        ELSE DOMAIN history.registered = {}

C21_Witness ==
    /\ mode = "sessions"
    /\ store.state = "ok"
    /\ DOMAIN store.templates = {EnrolledUser, OtherUser}
    /\ \E u \in DOMAIN store.templates :
          /\ KeyOf(store.templates[u].encrypted_key_bytes) = 3
          /\ \A v \in DOMAIN store.templates \ {u} :
                KeyOf(store.templates[v].encrypted_key_bytes) = 2

\* C30: in every state where register_response.json holds a success
\* response, templates.json is saved and holds a record of that user; and a
\* call of handle_register that ends with the save having failed has
\* written no response.
C30_SuccessAfterSave ==
    /\ [](mode = "sessions" /\ reg_response.state = "written" /\ reg_response.success
            => /\ store.state = "ok"
               /\ reg_response.user_id \in DOMAIN store.templates
               /\ store.templates[reg_response.user_id].user_id
                     = reg_response.user_id)
    /\ [][(mode = "sessions" /\ pc = "register_request"
              /\ outcome' = "Err: database save")
            => reg_response' = reg_response]_vars

\* a success response of an earlier register is on disk, its record saved,
\* and the register of another user has ended with the save having failed
C30_Witness ==
    /\ mode = "sessions"
    /\ pc = "register_failed"
    /\ outcome = "Err: database save"
    /\ reg_response.state = "written"
    /\ reg_response.success
    /\ store.state = "ok"
    /\ reg_response.user_id \in DOMAIN store.templates
    /\ reg_request.user_id \notin DOMAIN store.templates

\* C23: once a register of the client has been stored, a register request of
\* the client carries no server key, and server_key.bin holds the server key
\* of the first key pair the client generated.
C23_ServerKeyOnlyFirst ==
    mode = "sessions" =>
        /\ (register_file.state = "ok" /\ DOMAIN history.registered # {})
              => register_file.body.server_key_bytes = <<>>
        /\ server_key_file.state = "ok"
              => Deserialize(server_key_file.bytes).evaluates_for = 1

\* C28: the response a call of the client accepts was written by the server
\* for the request that call wrote.
C28_ResponseForOwnRequest ==
    (mode = "sessions" /\ client.accepted.kind # "none") =>
        client.accepted.answers = client.accepted.call

\* C29: when a register has ended with Ok and the client has its response,
\* the E(key) and E(iv) of every record of templates.json are encrypted under
\* the client key that server_key.bin evaluates for, which is the client key
\* the client holds.
C29_TemplatesUnderCurrentKey ==
    (/\ mode = "sessions"
     /\ pc = "enrolled"
     /\ client.waiting.kind = "none"
     /\ client.accepted.kind = "register"
     /\ client.accepted.success
     /\ client.accepted.answers = client.accepted.call) =>
        /\ store.state = "ok"
        /\ server_key_file.state = "ok"
        /\ client.key_file.state = "ok"
        /\ Deserialize(server_key_file.bytes).evaluates_for = client.key_file.ck
        /\ \A u \in DOMAIN store.templates :
              /\ KeyOf(store.templates[u].encrypted_key_bytes) = client.key_file.ck
              /\ KeyOf(store.templates[u].encrypted_iv_bytes) = client.key_file.ck

----------------------------------------------------------------------------
(* Properties of the client's key generation and of its sanity check.      *)

\* a call of the client has drawn its key and IV and written its request
ClientWrote ==
    /\ mode = "verify"
    /\ client'.calls = client.calls + 1
    /\ pc' \in {"register_request", "verify_request"}

\* C35: the key and the IV a call of the client generates are the 80 bits
\* u64_to_bits_80 gives for the u64 drawn: bit i is bit i of the u64, least
\* significant first, for i in 0..63, and bits 64..79 are false.
C35_HighBitsFalse ==
    [][ClientWrote =>
          /\ Len(key') = 80
          /\ Len(iv') = 80
          /\ \A i \in 0..63 :
                /\ At(key', i) = U64Bit(client'.drawn.key_u64, i)
                /\ At(iv', i) = U64Bit(client'.drawn.iv_u64, i)
          /\ \A i \in 64..79 : ~At(key', i) /\ ~At(iv', i)]_vars

C35_Witness ==
    /\ mode = "verify"
    /\ pc = "verify_request"
    /\ origin.verify = "client"
    /\ client.drawn.state = "drawn"
    /\ U64Bit(client.drawn.key_u64, 0)
    /\ U64Bit(client.drawn.key_u64, 63)
    /\ At(key, 0)
    /\ At(key, 63)
    /\ \A i \in 64..79 : ~At(key, i) /\ ~At(iv, i)
    /\ \E i \in 0..63 : At(iv, i)

\* handle_register of the client runs, from the call to its wait or its error
ClientRegisterStep ==
    /\ mode = "verify"
    /\ pc = "enroll"
    /\ client'.calls = client.calls + 1

----------------------------------------------------------------------------
(* Properties of the legacy popcount routines and of leq_constant's sweep. *)

\* the number of encrypted bits of d that decrypt to true
TrueBits(d) == Cardinality({i \in 1..Len(d) : Decrypt(d[i], ClientKey)})

\* C33: popcount_128 for a diff of 128 bits and popcount_256 for a diff of
\* 256 bits return a counter that decrypts, least significant bit first, to
\* the number of true bits of the diff, the padding to 512 bits adding
\* nothing; a diff of a length that is neither the routine's nor 512 fails.
C33_ShimsKeepCount ==
    (mode = "match" /\ routine \in {128, 256} /\ Len(bits_a) = Len(bits_b)) =>
        LET n == Len(bits_a)
        IN  /\ pc \in {"popcount_512", "popcount_loop"} =>
                  TrueBits(diff) = TrueBits(DiffBits(EncryptAll(bits_a, ClientKey),
                                                     EncryptAll(bits_b, ClientKey)))
            /\ pc = "popcount_loop" => (n \in {routine, 512} /\ Len(diff) = 512)
            /\ pc = "leq_call" =>
                  /\ n \in {routine, 512}
                  /\ BitsValue(DecryptAll(dist, ClientKey)) = TrueBits(SubSeq(diff, 1, n))
                  /\ BitsValue(DecryptAll(dist, ClientKey)) = Hamming(bits_a, bits_b)
            /\ pc = "panic" => n \notin {routine, 512}

C33_Witness ==
    /\ mode = "match"
    /\ routine = 128
    /\ pc = "leq_call"
    /\ Len(bits_a) = 128
    /\ Len(diff) = 512
    /\ Hamming(bits_a, bits_b) = 128
    /\ BitsValue(DecryptAll(dist, ClientKey)) = 128

C36_SweepInvariant ==
    (mode = "match" /\ pc = "leq_loop") =>
        LET k == Len(dist)
            d_high == BitsValue(SubSeq(DecryptAll(dist, ClientKey), li + 1, k))
            t_high == (thr \div (2 ^ li)) % (2 ^ (k - li))
            g == Decrypt(gt, ClientKey)
            e == Decrypt(eq, ClientKey)
        IN  /\ ~(g /\ e)
            /\ g = (d_high > t_high)
            /\ e = (d_high = t_high)

C36_Witness ==
    /\ mode = "match"
    /\ pc = "leq_loop"
    /\ li > 0
    /\ li < Len(dist) - 1
    /\ thr > 0
    /\ Decrypt(gt, ClientKey)
    /\ ~Decrypt(eq, ClientKey)
    /\ Decrypt(dist[li + 1], ClientKey) = thr_bits[li + 1]

----------------------------------------------------------------------------
(* Properties of the encrypted constants.                                  *)

\* the encrypted true a routine was handed
HandedTrue == IF mode = "cipher" THEN call.encrypted_true ELSE EncryptedTrue

\* the positions of the TriviumFhe state that hold neither key nor IV:
\* zeros at 80..92 and 173..284, ones at 285..287
ZeroSlots == (80..92) \cup (173..284)

OneSlots == 285..287

\* every ciphertext of s is under the client key of the true handed
UnderHandedKey(s) == \A i \in 1..Len(s) : s[i].ck = HandedTrue.ck

\* the state of a routine right after its constants were built
ConstantsFromTrue ==
    LET t == HandedTrue
        f == FheXor(t, t)
    IN  /\ (mode = "cipher" /\ pc = "fhe_warmup" /\ fclocks = 0) =>
              /\ \A i \in ZeroSlots : At(fstate, i) = f /\ ~Decrypt(At(fstate, i), t.ck)
              /\ \A i \in OneSlots : At(fstate, i) = t /\ Decrypt(At(fstate, i), t.ck)
        /\ (mode = "cipher" /\ pc \in {"fhe_warmup", "fhe_keystream", "fhe_return"}) =>
              (UnderHandedKey(fstate) /\ UnderHandedKey(fks) /\ UnderHandedKey(fplain))
        /\ (mode = "match" /\ pc = "popcount_loop") =>
              /\ idx = 0 => acc = Repeat(f, Len(acc))
              /\ UnderHandedKey(diff)
              /\ UnderHandedKey(acc)
        /\ (mode = "match" /\ pc = "leq_loop") =>
              /\ li = Len(dist) => (gt = f /\ eq = t)
              /\ gt.ck = t.ck
              /\ eq.ck = t.ck
        /\ (mode = "match" /\ pc = "leq_return") => result = FheXor(gt, t)

\* one bit position of leq_constant's sweep, written with its gates
SweepGates ==
    (mode = "match" /\ pc = "leq_loop" /\ li' = li - 1) =>
        LET t == HandedTrue
            di == dist[li]
            eq_and_di == FheAnd(eq, di)
        IN  IF thr_bits[li]
            THEN gt' = gt /\ eq' = eq_and_di
            ELSE /\ gt' = FheXor(FheXor(gt, eq_and_di), FheAnd(gt, eq_and_di))
                 /\ eq' = FheAnd(eq, FheXor(di, t))

\* C31: the zeros and ones TriviumFhe::new puts into its state, the
\* accumulator bits a popcount routine starts from and the gt and eq
\* leq_constant starts from are E(true) XOR E(true) and clones of the E(true)
\* handed in; NOT gt is gt XOR E(true) and the OR of the sweep is
\* a XOR b XOR (a AND b); every ciphertext the routines hold is under the
\* client key of that E(true), none encrypted by the server.
C31_ConstantsFromTrue == []ConstantsFromTrue /\ [][SweepGates]_vars

C31_Witness ==
    /\ mode = "match"
    /\ pc = "leq_return"
    /\ routine = 512
    /\ Len(diff) = 512
    /\ Decrypt(gt, ClientKey)
    /\ result = FheXor(gt, EncryptedTrue)
    /\ ~Decrypt(result, ClientKey)
    /\ result.ck = EncryptedTrue.ck

====
